---------------------------- MODULE Spec2Model ----------------------------
(***************************************************************************)
(* A model of the DNS analyzer of src/analyzer/protocol/dns/DNS.cc:        *)
(* the label decoder (ExtractName / ExtractLabel), the field readers, the  *)
(* record parsers, the message parser (DNS_Interpreter::ParseMessage) and  *)
(* the TCP framer (Contents_DNS).                                          *)
(*                                                                         *)
(* A message is a sequence of bytes (0..255).  The C cursor (data, len) is *)
(* the pair (pos, len): pos is data - msg_start, len the remaining length. *)
(* The two are kept apart, as the code keeps them, so that pos + len is    *)
(* something the model can get wrong.                                      *)
(***************************************************************************)
EXTENDS Integers, Sequences, FiniteSets, TLC

VARIABLES
    pc,             \* "idle": between two packets; "done": ParseMessage returned
    msg,            \* the bytes handed to the last ParseMessage call
    arg_is_query,   \* the is_query argument of that call
    ret,            \* its return value (-1: no call yet)
    log,            \* what the call emitted, in order: events, weirds, signals
    cursor,         \* the cursor (data, len) when the call returned
    first_message,  \* DNS_Interpreter::first_message
    flips,          \* number of Connection::FlipRoles calls so far
    cfg,            \* the policy and connection constants the parser reads
    framer,         \* the two Contents_DNS objects, by direction (orig)
    pending,        \* the bytes of each direction's stream not yet delivered
    forwarded,      \* the ForwardPacket calls so far: <<payload, orig>>
    nm,             \* one ExtractName call on a raw buffer: input and result
    conn,           \* the connection: its closes, its expire timers, its session
    queue,          \* a BaseQueue object, NoQueue when there is none
    list            \* a BaseList object, NoList when there is none

vars == <<pc, msg, arg_is_query, ret, log, cursor, first_message, flips, cfg,
          framer, pending, forwarded, nm, conn, queue, list>>


-----------------------------------------------------------------------------
(* Program constants.                                                      *)

\* sizeof(DNS_RawMsgHdr): id, flags and four counts, 16 bits each
HDR_LEN == 12

\* sizeof(name) - 1 for the u_char name[513] scratch buffers
NAME_LEN == 512

\* sizeof(alg_name) - 1 for the u_char alg_name[1024] buffer of ParseRR_TSIG
TSIG_NAME_LEN == 1023

\* The NetBIOS name service port: ntohs(RespPort()) == 137
NETBIOS_PORT == 137

\* RR types (RR_Type).
TYPE_A == 1
TYPE_NS == 2
TYPE_CNAME == 5
TYPE_SOA == 6
TYPE_WKS == 11
TYPE_PTR == 12
TYPE_HINFO == 13
TYPE_MX == 15
TYPE_TXT == 16
TYPE_AAAA == 28
TYPE_NBS == 32
TYPE_SRV == 33
TYPE_A6 == 38
TYPE_EDNS == 41
TYPE_DS == 43
TYPE_RRSIG == 46
TYPE_NSEC == 47
TYPE_DNSKEY == 48
TYPE_NSEC3 == 50
TYPE_SPF == 99
TYPE_TSIG == 250
TYPE_ALL == 255
TYPE_CAA == 257

\* DNS_AnswerType
DNS_QUESTION == "QUESTION"
DNS_ANSWER == "ANSWER"
DNS_AUTHORITY == "AUTHORITY"
DNS_ADDITIONAL == "ADDITIONAL"

\* A null pointer, as a value no buffer position takes.
NULL == -1

-----------------------------------------------------------------------------
(* Bytes and the log.                                                      *)

Byte == 0..255

InMsg(m, i) == i >= 0 /\ i < Len(m)

\* data[i - pos]: the byte at offset i of the message.  A read outside the
\* message is recorded by the readers (oob); its value is then arbitrary.
Rd(m, i) == IF InMsg(m, i) THEN m[i + 1] ELSE 0

Min(a, b) == IF a < b THEN a ELSE b
Max(a, b) == IF a > b THEN a ELSE b

Entry(k, name, at, arg) == [k |-> k, name |-> name, at |-> at, arg |-> arg]

\* analyzer->Weird(name)
Weird(P, name) == [P EXCEPT !.log = Append(@, Entry("weird", name, P.answer_type, <<>>))]

\* analyzer->ConnectionEventFast(handler, ...)
Emit(P, name, arg) == [P EXCEPT !.log = Append(@, Entry("event", name, P.answer_type, arg))]

\* if ( handler ), for an event handler of the script layer
Registered(h) == h \in cfg.handlers

\* if ( handler && ! msg->skip_event ) ConnectionEventFast(handler, ...)
EmitUnlessSkipped(P, name, arg) ==
    IF Registered(name) /\ ~P.skip_event THEN Emit(P, name, arg) ELSE P

\* One read of the byte at the cursor's position + k.
Touch(P, k) == [P EXCEPT !.oob = @ \/ ~InMsg(P.m, P.pos + k)]

\* data += n; len -= n;  (neg: len went below zero)
Advance(P, n) == [P EXCEPT !.pos = @ + n, !.len = @ - n, !.neg = @ \/ P.len - n < 0]


-----------------------------------------------------------------------------
(* The parse state threaded through the parser: the cursor (pos, len), the *)
(* by-reference name buffer of the label decoder, the scratch fields of    *)
(* DNS_MsgInfo, and what the model observes (log, oob, ptrs, stuck).       *)

NewParse(m, len) ==
    [m |-> m,               \* the message, msg_start = offset 0
     pos |-> 0,             \* data - msg_start
     len |-> len,           \* len
     log |-> <<>>,
     oob |-> FALSE,         \* some read fell outside the message
     neg |-> FALSE,         \* len was negative after some step
     val |-> 0,             \* the value a field reader returned
     long |-> <<0, 0>>,     \* the uint32 ExtractLong returned: <<high 16 bits, low 16 bits>>
     status |-> 1,          \* the int a parser returned
     name |-> <<>>,         \* the bytes written to the name buffer
     name_len |-> NAME_LEN, \* the room left in it
     name_end |-> 0,        \* the pointer ExtractName returned
     ptrs |-> <<>>,         \* the compression pointers followed, outermost first
     decoded |-> <<>>,      \* the offsets at which ExtractLabel read a label's first byte
     labels |-> <<>>,       \* the labels copied to the name buffer, as they are on the wire
     low |-> NAME_LEN,      \* the least name_len a copy left
     refused |-> <<>>,      \* <<label_len, name_len, labels copied>> of a label with no room
     stuck |-> FALSE,       \* the decoder nested deeper than the message is long
     skip_event |-> FALSE,  \* DNS_MsgInfo::skip_event
     answer_type |-> DNS_QUESTION,
     atype |-> TYPE_ALL,
     aclass |-> 0,
     ttl |-> <<0, 0>>,
     query_name |-> <<>>]

\* isupper(c) ? tolower(c) : c, in the C locale
ToLower(b) == IF b >= 65 /\ b <= 90 THEN b + 32 ELSE b

LowerAll(s) == [i \in 1..Len(s) |-> ToLower(s[i])]

RECURSIVE ExtractName(_, _)
RECURSIVE ExtractLabel(_, _)
RECURSIVE LabelLoop(_, _)

\* ExtractLabel that leaves the caller's cursor where the nested decode
\* ended.
ExtractLabelResolved_NestedCursor(P2, sub) ==
    [P2 EXCEPT !.name = @ \o sub.name,
               !.name_len = @ - Len(sub.name),
               !.pos = sub.pos,
               !.len = sub.len,
               !.log = sub.log,
               !.oob = sub.oob,
               !.neg = sub.neg,
               !.stuck = sub.stuck,
               !.decoded = sub.decoded,
               !.labels = sub.labels,
               !.low = sub.low,
               !.refused = sub.refused,
               !.ptrs = [sub.ptrs EXCEPT ![Len(P2.ptrs) + 1].end = sub.pos],
               !.val = 0]

\* ExtractLabel after the recursive ExtractName returned (sub): the bytes it
\* wrote are appended to the name (name_len -= name_end - name; name =
\* name_end), the cursor stays behind the pointer, 0 is returned.
ExtractLabelResolved(P2, sub) ==
    [P2 EXCEPT !.name = @ \o sub.name,
               !.name_len = @ - Len(sub.name),
               !.log = sub.log,
               !.oob = sub.oob,
               !.neg = sub.neg,
               !.stuck = sub.stuck,
               !.decoded = sub.decoded,
               !.labels = sub.labels,
               !.low = sub.low,
               !.refused = sub.refused,
               !.ptrs = [sub.ptrs EXCEPT ![Len(P2.ptrs) + 1].end = sub.pos],
               !.val = 0]

\* ExtractLabel that also follows a pointer to its own position.
ExtractLabelJump_SelfAllowed(P2, depth, orig_data, offset) ==
    IF offset > orig_data
    THEN [Weird(P2, "DNS_label_forward_compress_offset") EXCEPT !.val = 0]
    ELSE ExtractLabelResolved(
             P2,
             ExtractName([P2 EXCEPT !.pos = offset,
                                    !.len = orig_data - offset,
                                    !.name = <<>>,
                                    !.ptrs = Append(@, [at |-> orig_data,
                                                        to |-> offset,
                                                        end |-> offset])],
                         depth + 1))

\* ExtractLabel on a compression pointer whose second byte was just read:
\* P2 is the state behind the pointer, orig_data the pointer's position.
ExtractLabelJump(P2, depth, orig_data, offset) ==
    IF offset >= orig_data
    THEN [Weird(P2, "DNS_label_forward_compress_offset") EXCEPT !.val = 0]
    ELSE ExtractLabelResolved(
             P2,
             ExtractName([P2 EXCEPT !.pos = offset,
                                    !.len = orig_data - offset,
                                    !.name = <<>>,
                                    !.ptrs = Append(@, [at |-> orig_data,
                                                        to |-> offset,
                                                        end |-> offset])],
                         depth + 1))

\* ExtractLabel on a label whose first byte has its two high bits set.
ExtractLabelPointer(P, depth, orig_data, label_len) ==
    ExtractLabelJump(Advance(Touch(P, 0), 1), depth, orig_data,
                     ((label_len % 64) * 256 + Rd(P.m, P.pos)) % 65536)

\* ExtractLabel that copies a label of any length.
ExtractLabelCopy_AnyLength(P, label_len) ==
    IF label_len > P.len
    THEN [Advance(Weird(P, "DNS_label_len_gt_pkt"), P.len) EXCEPT !.len = 0, !.val = 0]
    ELSE IF label_len >= P.name_len
    THEN [Weird(P, "DNS_label_len_gt_name_len") EXCEPT
              !.refused = <<label_len, P.name_len, Len(P.labels)>>, !.val = 0]
    ELSE [Advance(P, label_len) EXCEPT
              !.name = @ \o [i \in 1..label_len |-> Rd(P.m, P.pos + i - 1)] \o <<46>>,
              !.labels = Append(@, [i \in 1..label_len |-> Rd(P.m, P.pos + i - 1)]),
              !.name_len = @ - (label_len + 1),
              !.low = Min(@, P.name_len - (label_len + 1)),
              !.oob = @ \/ ~InMsg(P.m, P.pos + label_len - 1),
              !.val = 1]

\* ExtractLabel that copies a label whatever room the name buffer has.
ExtractLabelCopy_NoRoomCheck(P, label_len) ==
    IF label_len > P.len
    THEN [Advance(Weird(P, "DNS_label_len_gt_pkt"), P.len) EXCEPT !.len = 0, !.val = 0]
    ELSE IF label_len > 63 /\ cfg.resp_port # NETBIOS_PORT
    THEN [Weird(P, "DNS_label_too_long") EXCEPT !.val = 0]
    ELSE [Advance(P, label_len) EXCEPT
              !.name = @ \o [i \in 1..label_len |-> Rd(P.m, P.pos + i - 1)] \o <<46>>,
              !.labels = Append(@, [i \in 1..label_len |-> Rd(P.m, P.pos + i - 1)]),
              !.name_len = @ - (label_len + 1),
              !.low = Min(@, P.name_len - (label_len + 1)),
              !.oob = @ \/ ~InMsg(P.m, P.pos + label_len - 1),
              !.val = 1]

\* ExtractLabel on an ordinary label: its checks, then the copy.
ExtractLabelCopy(P, label_len) ==
    IF label_len > P.len
    THEN [Advance(Weird(P, "DNS_label_len_gt_pkt"), P.len) EXCEPT !.len = 0, !.val = 0]
    ELSE IF label_len > 63 /\ cfg.resp_port # NETBIOS_PORT
    THEN [Weird(P, "DNS_label_too_long") EXCEPT !.val = 0]
    ELSE IF label_len >= P.name_len
    THEN [Weird(P, "DNS_label_len_gt_name_len") EXCEPT
              !.refused = <<label_len, P.name_len, Len(P.labels)>>, !.val = 0]
    ELSE [Advance(P, label_len) EXCEPT
              !.name = @ \o [i \in 1..label_len |-> Rd(P.m, P.pos + i - 1)] \o <<46>>,
              !.labels = Append(@, [i \in 1..label_len |-> Rd(P.m, P.pos + i - 1)]),
              !.name_len = @ - (label_len + 1),
              !.low = Min(@, P.name_len - (label_len + 1)),
              !.oob = @ \/ ~InMsg(P.m, P.pos + label_len - 1),
              !.val = 1]

\* ExtractLabel after its first byte, label_len, was read at orig_data.
ExtractLabelBody(P1, depth, orig_data, label_len) ==
    IF P1.len <= 0 THEN [P1 EXCEPT !.val = 0]
    ELSE IF label_len = 0 THEN [P1 EXCEPT !.val = 0]
    ELSE IF label_len >= 192
    THEN ExtractLabelPointer(P1, depth, orig_data, label_len)
    ELSE ExtractLabelCopy(P1, label_len)

\* DNS_Interpreter::ExtractLabel.  val is the int returned: 1 when a label
\* was copied and another may follow, 0 when the name ends here.
ExtractLabel(P, depth) ==
    IF P.len <= 0 THEN [P EXCEPT !.val = 0]
    ELSE ExtractLabelBody([Advance(Touch(P, 0), 1) EXCEPT !.decoded = Append(@, P.pos)],
                          depth, P.pos, Rd(P.m, P.pos))

\* The loop of ExtractName after one call of ExtractLabel returned R.
LabelLoopStep(R, depth) == IF R.val = 1 THEN LabelLoop(R, depth) ELSE R

\* while ( ExtractLabel(data, len, name, name_len, msg_start) ) ;
LabelLoop(P, depth) == LabelLoopStep(ExtractLabel(P, depth), depth)

\* The name buffer after ExtractName removed a trailing dot.
StripDot(name) ==
    IF Len(name) >= 2 /\ name[Len(name)] = 46
    THEN SubSeq(name, 1, Len(name) - 1) ELSE name

\* ExtractName after its loop: R is the state the loop left, name_len the
\* caller's room, which ExtractName got by value.
ExtractNameEnd(R, name_len) ==
    [R EXCEPT !.log = IF Len(R.name) >= 255
                      THEN Append(@, Entry("weird", "DNS_NAME_too_long",
                                           R.answer_type, <<>>))
                      ELSE @,
              !.name = LowerAll(StripDot(R.name)),
              !.name_end = Len(StripDot(R.name)),
              !.name_len = name_len]

\* DNS_Interpreter::ExtractName.  The caller's name buffer starts empty
\* (name = name_start); the result holds the cursor after the name, the
\* bytes written and name_end, the (never null) pointer returned.
ExtractName(P, depth) ==
    IF depth > Len(P.m)
    THEN [P EXCEPT !.stuck = TRUE, !.name_end = 0]
    ELSE ExtractNameEnd(LabelLoop(P, depth), P.name_len)

\* A call of ExtractName from a parser, on a fresh name buffer of name_len
\* bytes (u_char name[513]; int name_len = sizeof(name) - 1).
NameCall(P, name_len) ==
    ExtractName([P EXCEPT !.name = <<>>, !.name_len = name_len, !.ptrs = <<>>,
                          !.decoded = <<>>, !.labels = <<>>, !.low = name_len,
                          !.refused = <<>>], 0)

-----------------------------------------------------------------------------
(* Field readers.                                                          *)

\* ExtractShort without its length check.
ExtractShort_Unchecked(P) ==
    [Advance(Touch(Touch(P, 0), 1), 2) EXCEPT
         !.val = Rd(P.m, P.pos) * 256 + Rd(P.m, P.pos + 1)]

\* DNS_Interpreter::ExtractShort
ExtractShort(P) ==
    IF P.len < 2 THEN [P EXCEPT !.val = 0]
    ELSE [Advance(Touch(Touch(P, 0), 1), 2) EXCEPT
              !.val = Rd(P.m, P.pos) * 256 + Rd(P.m, P.pos + 1)]

\* DNS_Interpreter::ExtractLong.  The uint32 returned is long, as its high
\* and low 16 bits <<hi, lo>>.
ExtractLong(P) ==
    IF P.len < 4 THEN [P EXCEPT !.long = <<0, 0>>]
    ELSE [Advance(Touch(Touch(P, 0), 3), 4) EXCEPT
              !.long = <<Rd(P.m, P.pos) * 256 + Rd(P.m, P.pos + 1),
                         Rd(P.m, P.pos + 2) * 256 + Rd(P.m, P.pos + 3)>>]

\* new BroString(data, n, ...): n bytes are read at the cursor
ReadBytes(P, n) == IF n > 0 THEN Touch(Touch(P, 0), n - 1) ELSE P

\* data += dlen; len -= dlen; after the dlen bytes at the cursor were read
TakeBytes(P, dlen) == Advance(ReadBytes(P, dlen), dlen)

\* ExtractOctets after its ExtractShort returned S.val
ExtractOctetsData(S) == TakeBytes(S, Min(S.len, S.val) % 65536)

\* DNS_Interpreter::ExtractOctets
ExtractOctets(P) == ExtractOctetsData(ExtractShort(P))

\* DNS_Interpreter::ExtractStream
ExtractStream(P, l) == TakeBytes(P, Min(P.len, Max(l, 0)))

\* data += rdlength; len -= rdlength; return 1;
SkipRdata(P, rdlength) == [Advance(P, rdlength) EXCEPT !.status = 1]

\* if ( data - data_start != rdlength ) analyzer->Weird("DNS_RR_length_mismatch");
CheckLength(P, data_start, rdlength) ==
    IF P.pos - data_start # rdlength THEN Weird(P, "DNS_RR_length_mismatch") ELSE P

\* return 0;  return 1;  of a record parser
Fail(P) == [P EXCEPT !.status = 0]
Succeed(P) == [P EXCEPT !.status = 1]

-----------------------------------------------------------------------------
(* Record parsers.  Each gets the parse state after the record prelude and *)
(* rdlength, and returns it with status, the int the C function returns.   *)
(* A parser that uses a value more than once gets it as the parameter of   *)
(* the definition that models the rest of the function.                    *)

\* switch ( msg->atype ) of ParseRR_Name
NameReplyEvent(atype) ==
    IF atype = TYPE_NS THEN "dns_NS_reply"
    ELSE IF atype \in {TYPE_CNAME, TYPE_AAAA, TYPE_A6} THEN "dns_CNAME_reply"
    ELSE IF atype = TYPE_PTR THEN "dns_PTR_reply"
    ELSE "none"

\* ParseRR_Name from its switch on.
ParseRR_NameEvent(C) ==
    IF NameReplyEvent(C.atype) = "none"
    THEN [C EXCEPT !.log = Append(@, Entry("internal", "DNS_RR_bad_name",
                                           C.answer_type, <<>>))]
    ELSE EmitUnlessSkipped(C, NameReplyEvent(C.atype), C.name)

\* ParseRR_Name after its ExtractName.
ParseRR_NameEnd(N, data_start, rdlength) ==
    IF N.name_end = NULL THEN Fail(N)
    ELSE Succeed(ParseRR_NameEvent(CheckLength(N, data_start, rdlength)))

\* DNS_Interpreter::ParseRR_Name
ParseRR_Name(P, rdlength) == ParseRR_NameEnd(NameCall(P, NAME_LEN), P.pos, rdlength)

\* ParseRR_SOA after the ExtractName of rname.
ParseRR_SOA_Fields(R, mname, data_start, rdlength) ==
    IF R.name_end = NULL THEN Fail(R)
    ELSE IF R.len < 20 THEN Fail(R)
    ELSE Succeed(EmitUnlessSkipped(
                     CheckLength(ExtractLong(ExtractLong(ExtractLong(
                                     ExtractLong(ExtractLong(R))))),
                                 data_start, rdlength),
                     "dns_SOA_reply", mname))

\* ParseRR_SOA after the ExtractName of mname.
ParseRR_SOA_Rname(M, data_start, rdlength) ==
    IF M.name_end = NULL THEN Fail(M)
    ELSE ParseRR_SOA_Fields(NameCall(M, NAME_LEN), M.name, data_start, rdlength)

\* DNS_Interpreter::ParseRR_SOA
ParseRR_SOA(P, rdlength) == ParseRR_SOA_Rname(NameCall(P, NAME_LEN), P.pos, rdlength)

\* ParseRR_MX and ParseRR_SRV after their ExtractName.
ParseRR_NamedEnd(N, data_start, rdlength, handler) ==
    IF N.name_end = NULL THEN Fail(N)
    ELSE Succeed(EmitUnlessSkipped(CheckLength(N, data_start, rdlength), handler, N.name))

\* DNS_Interpreter::ParseRR_MX
ParseRR_MX(P, rdlength) ==
    ParseRR_NamedEnd(NameCall(ExtractShort(P), NAME_LEN), P.pos, rdlength, "dns_MX_reply")

\* DNS_Interpreter::ParseRR_NBS
ParseRR_NBS(P, rdlength) == SkipRdata(P, rdlength)

\* DNS_Interpreter::ParseRR_SRV
ParseRR_SRV(P, rdlength) ==
    ParseRR_NamedEnd(NameCall(ExtractShort(ExtractShort(ExtractShort(P))), NAME_LEN),
                     P.pos, rdlength, "dns_SRV_reply")

\* DNS_Interpreter::ParseRR_EDNS
ParseRR_EDNS(P, rdlength) ==
    IF rdlength > 0
    THEN SkipRdata(EmitUnlessSkipped(P, "dns_EDNS_addl", <<>>), rdlength)
    ELSE Succeed(EmitUnlessSkipped(P, "dns_EDNS_addl", <<>>))

\* if ( handler ) ConnectionEventFast(handler, ...): no look at skip_event
EmitIfRegistered(P, name, arg) == IF Registered(name) THEN Emit(P, name, arg) ELSE P

\* ParseRR_TSIG after its ExtractName.
ParseRR_TSIG_Fields(N) ==
    IF N.name_end = NULL THEN Fail(N)
    ELSE Succeed(EmitIfRegistered(
                     ExtractOctets(ExtractShort(ExtractShort(
                         ExtractOctets(ExtractShort(ExtractShort(ExtractLong(N))))))),
                     "dns_TSIG_addl", N.name))

\* DNS_Interpreter::ParseRR_TSIG
ParseRR_TSIG(P, rdlength) == ParseRR_TSIG_Fields(NameCall(P, TSIG_NAME_LEN))

\* switch ( dsa ) of ParseRR_RRSIG and ParseRR_DNSKEY over DNSSEC_Algo:
\* RSA_MD5 (1), Indirect (252), PrivateDNS (253), PrivateOID (254) and the
\* values that are no algorithm of the enum get a weird, w[1] .. w[5].
AlgoWeird(P, algo, w) ==
    IF algo = 1 THEN Weird(P, w[1])
    ELSE IF algo \in {2, 3, 4, 5, 6, 7, 8, 10, 12, 13, 14} THEN P
    ELSE IF algo = 252 THEN Weird(P, w[2])
    ELSE IF algo = 253 THEN Weird(P, w[3])
    ELSE IF algo = 254 THEN Weird(P, w[4])
    ELSE Weird(P, w[5])

RRSIG_Weirds ==
    <<"DNSSEC_RRSIG_NotRecommended_ZoneSignAlgo", "DNSSEC_RRSIG_Indirect_ZoneSignAlgo",
      "DNSSEC_RRSIG_PrivateDNS_ZoneSignAlgo", "DNSSEC_RRSIG_PrivateOID_ZoneSignAlgo",
      "DNSSEC_RRSIG_unknown_ZoneSignAlgo">>

\* ParseRR_RRSIG after the ExtractName of the signer's name, which started
\* at data_start.
ParseRR_RRSIG_Signature(N, algo, data_start, rdlength) ==
    IF N.name_end = NULL THEN Fail(N)
    ELSE Succeed(EmitIfRegistered(
                     AlgoWeird(ExtractStream(N, rdlength - ((N.pos - data_start) + 18)),
                               algo, RRSIG_Weirds),
                     "dns_RRSIG", N.name))

\* ParseRR_RRSIG after its fixed fields.
ParseRR_RRSIG_Signer(F, algo, rdlength) ==
    ParseRR_RRSIG_Signature(NameCall(F, NAME_LEN), algo, F.pos, rdlength)

\* ParseRR_RRSIG after type_covered and algo_lab were read; A.val is
\* algo_lab.
ParseRR_RRSIG_Fields(A, rdlength) ==
    ParseRR_RRSIG_Signer(ExtractShort(ExtractLong(ExtractLong(ExtractLong(A)))),
                         (A.val \div 256) % 256, rdlength)

\* DNS_Interpreter::ParseRR_RRSIG
ParseRR_RRSIG(P, rdlength) ==
    IF ~Registered("dns_RRSIG") \/ P.skip_event THEN SkipRdata(P, rdlength)
    ELSE IF P.len < 18 THEN Fail(P)
    ELSE ParseRR_RRSIG_Fields(ExtractShort(ExtractShort(P)), rdlength)

\* if ( cond ) analyzer->Weird(name);
WeirdIf(P, cond, name) == IF cond THEN Weird(P, name) ELSE P

DNSKEY_Weirds ==
    <<"DNSSEC_DNSKEY_NotRecommended_ZoneSignAlgo", "DNSSEC_DNSKEY_Indirect_ZoneSignAlgo",
      "DNSSEC_DNSKEY_PrivateDNS_ZoneSignAlgo", "DNSSEC_DNSKEY_PrivateOID_ZoneSignAlgo",
      "DNSSEC_DNSKEY_unknown_ZoneSignAlgo">>

\* ParseRR_DNSKEY after the key was extracted: the checks of the flags
\* ((dflags & 0xfe7e) != 0: a bit other than 0, 7, 8 is set;
\* (dflags & 0x0181) == 0x0181: bits 0, 7 and 8 are set), of the protocol
\* and of the algorithm, then the event.
ParseRR_DNSKEY_Checks(K, dflags, dprotocol, dalgorithm) ==
    Succeed(EmitIfRegistered(
        AlgoWeird(
            WeirdIf(
                WeirdIf(
                    WeirdIf(K, (dflags \div 512) # 0 \/ ((dflags % 128) \div 2) # 0,
                            "DNSSEC_DNSKEY_Invalid_Flag"),
                    dflags % 2 = 1 /\ (dflags \div 128) % 4 = 3,
                    "DNSSEC_DNSKEY_Revoked_KSK"),
                dprotocol # 3, "DNSSEC_DNSKEY_Invalid_Protocol"),
            dalgorithm, DNSKEY_Weirds),
        "dns_DNSKEY", <<>>))

\* ParseRR_DNSKEY after proto_algo was read; A.val is proto_algo.
ParseRR_DNSKEY_Key(A, dflags, rdlength) ==
    ParseRR_DNSKEY_Checks(ExtractStream(A, rdlength - 4), dflags,
                          (A.val \div 256) % 256, A.val % 256)

\* ParseRR_DNSKEY after dflags was read; F.val is dflags.
ParseRR_DNSKEY_Algo(F, rdlength) == ParseRR_DNSKEY_Key(ExtractShort(F), F.val, rdlength)

\* DNS_Interpreter::ParseRR_DNSKEY
ParseRR_DNSKEY(P, rdlength) ==
    IF ~Registered("dns_DNSKEY") \/ P.skip_event THEN SkipRdata(P, rdlength)
    ELSE IF P.len < 4 THEN Fail(P)
    ELSE ParseRR_DNSKEY_Algo(ExtractShort(P), rdlength)

RECURSIVE TypeBitmaps(_, _, _)

\* The body of the loop after block_bmlen, B.val, was read.
TypeBitmapsBlock(B, typebitmaps_len, weird) ==
    IF B.val % 256 = 0 THEN Weird(B, weird)
    ELSE TypeBitmaps(ExtractStream(B, B.val % 256),
                     typebitmaps_len - (2 + (B.val % 256)), weird)

\* while ( typebitmaps_len > 0 && len > 0 ) of ParseRR_NSEC and ParseRR_NSEC3
TypeBitmaps(P, typebitmaps_len, weird) ==
    IF ~(typebitmaps_len > 0 /\ P.len > 0) THEN P
    ELSE TypeBitmapsBlock(ExtractShort(P), typebitmaps_len, weird)

\* ParseRR_NSEC after its ExtractName.
ParseRR_NSEC_Bitmaps(N, data_start, rdlength) ==
    IF N.name_end = NULL THEN Fail(N)
    ELSE Succeed(EmitIfRegistered(
                     TypeBitmaps(N, rdlength - (N.pos - data_start),
                                 "DNSSEC_NSEC_bitmapLen0"),
                     "dns_NSEC", N.name))

\* DNS_Interpreter::ParseRR_NSEC
ParseRR_NSEC(P, rdlength) ==
    IF ~Registered("dns_NSEC") \/ P.skip_event THEN SkipRdata(P, rdlength)
    ELSE ParseRR_NSEC_Bitmaps(NameCall(P, NAME_LEN), P.pos, rdlength)

\* if ( len > 0 ) { x = data[0]; ++data; --len; } of ParseRR_NSEC3
ReadByteIfAny(P) ==
    IF P.len > 0 THEN [Advance(Touch(P, 0), 1) EXCEPT !.val = Rd(P.m, P.pos)]
    ELSE [P EXCEPT !.val = 0]

\* ExtractStream(data, len, x) for the x that ReadByteIfAny read, L.val
StreamOfLength(L) == ExtractStream(L, L.val)

\* ParseRR_NSEC3 after salt and hash were extracted.
ParseRR_NSEC3_Bitmaps(HV, data_start, rdlength) ==
    Succeed(EmitIfRegistered(
                TypeBitmaps(HV, rdlength - (HV.pos - data_start),
                            "DNSSEC_NSEC3_bitmapLen0"),
                "dns_NSEC3", <<>>))

\* DNS_Interpreter::ParseRR_NSEC3
ParseRR_NSEC3(P, rdlength) ==
    IF ~Registered("dns_NSEC3") \/ P.skip_event THEN SkipRdata(P, rdlength)
    ELSE IF P.len < 6 THEN Fail(P)
    ELSE ParseRR_NSEC3_Bitmaps(
             StreamOfLength(ReadByteIfAny(
                 StreamOfLength(ReadByteIfAny(ExtractShort(ExtractShort(P)))))),
             P.pos, rdlength)

\* switch ( ds_digest_type ) of ParseRR_DS: SHA1, SHA256, GOST_R_34_11_94 and
\* SHA384 are 1 .. 4, reserved is 0.
DigestWeird(D, ds_dtype) ==
    IF ds_dtype \in {1, 2, 3, 4} THEN D
    ELSE IF ds_dtype = 0 THEN Weird(D, "DNSSEC_DS_ResrevedDigestType")
    ELSE Weird(D, "DNSSEC_DS_unknown_DigestType")

\* ParseRR_DS after ds_algo_dtype was read; A.val is ds_algo_dtype.
ParseRR_DS_Digest(A, rdlength) ==
    Succeed(EmitIfRegistered(DigestWeird(ExtractStream(A, rdlength - 4), A.val % 256),
                             "dns_DS", <<>>))

\* DNS_Interpreter::ParseRR_DS
ParseRR_DS(P, rdlength) ==
    IF ~Registered("dns_DS") \/ P.skip_event THEN SkipRdata(P, rdlength)
    ELSE IF P.len < 4 THEN Fail(P)
    ELSE ParseRR_DS_Digest(ExtractShort(ExtractShort(P)), rdlength)

\* DNS_Interpreter::ParseRR_A
ParseRR_A(P, rdlength) ==
    IF rdlength # 4 THEN Fail(Weird(P, "DNS_RR_bad_length"))
    ELSE Succeed(EmitUnlessSkipped(ExtractLong(P), "dns_A_reply", <<>>))

RECURSIVE AAAALoop(_, _)

\* The body of the loop after ExtractLong returned.
AAAALoopCheck(L, i) ==
    IF L.len < 0
    THEN Fail(Weird(L, IF L.atype = TYPE_AAAA THEN "DNS_AAAA_neg_length"
                                              ELSE "DNS_A6_neg_length"))
    ELSE AAAALoop(L, i + 1)

\* for ( int i = 0; i < 4; ++i ) of ParseRR_AAAA; status 0 is its return 0
AAAALoop(P, i) ==
    IF i >= 4 THEN Succeed(P) ELSE AAAALoopCheck(ExtractLong(P), i)

\* ParseRR_AAAA after its loop.
ParseRR_AAAA_Event(L) ==
    IF L.status = 0 THEN L
    ELSE Succeed(EmitUnlessSkipped(L, IF L.atype = TYPE_AAAA THEN "dns_AAAA_reply"
                                                              ELSE "dns_A6_reply", <<>>))

\* DNS_Interpreter::ParseRR_AAAA
ParseRR_AAAA(P, rdlength) == ParseRR_AAAA_Event(AAAALoop(P, 0))

\* ParseRR_WKS that reports the record before skipping its payload.
ParseRR_WKS_Reported(P, rdlength) ==
    SkipRdata(EmitUnlessSkipped(P, "dns_unknown_reply", <<>>), rdlength)

\* DNS_Interpreter::ParseRR_WKS
ParseRR_WKS(P, rdlength) == SkipRdata(P, rdlength)

\* DNS_Interpreter::ParseRR_HINFO
ParseRR_HINFO(P, rdlength) == SkipRdata(P, rdlength)

RECURSIVE CharStrings(_, _)

\* extract_char_string after str_size was read and rdlen, len and data
\* were stepped over it.
CharString(P1, str_size, rdlen) ==
    IF str_size > rdlen
    THEN [Weird(P1, "DNS_TXT_char_str_past_rdlen") EXCEPT !.val = rdlen]
    ELSE CharStrings(TakeBytes(P1, str_size), rdlen - str_size)

\* while ( (char_string = extract_char_string(analyzer, data, len, rdlength)) )
\* with extract_char_string inlined; val is rdlength when the loop ends.
CharStrings(P, rdlen) ==
    IF rdlen <= 0 THEN [P EXCEPT !.val = rdlen]
    ELSE CharString(Advance(Touch(P, 0), 1), Rd(P.m, P.pos), rdlen - 1)

\* ParseRR_TXT after its loop: the event, and return rdlength == 0.
ParseRR_TXT_Event(C, handler) ==
    [EmitIfRegistered(C, handler, <<>>) EXCEPT !.status = IF C.val = 0 THEN 1 ELSE 0]

\* DNS_Interpreter::ParseRR_TXT and DNS_Interpreter::ParseRR_SPF
ParseRR_TXT(P, rdlength, handler) ==
    IF ~Registered(handler) \/ P.skip_event THEN SkipRdata(P, rdlength)
    ELSE ParseRR_TXT_Event(CharStrings(P, rdlength), handler)

\* ParseRR_CAA after flags and tagLen were read and rdlength -= 2: the tag,
\* then the value, which takes what is left of rdlength, so that
\* return rdlength == 0 returns 1.
ParseRR_CAA_Tag(F, tagLen, rdl) ==
    IF tagLen >= rdl THEN Fail(Weird(F, "DNS_CAA_char_str_past_rdlen"))
    ELSE Succeed(EmitIfRegistered(TakeBytes(TakeBytes(F, tagLen), rdl - tagLen),
                                  "dns_CAA_reply", <<>>))

\* ParseRR_CAA after its ExtractShort; F.val & 0xff is tagLen.
ParseRR_CAA_Flags(F, rdlength) == ParseRR_CAA_Tag(F, F.val % 256, rdlength - 2)

\* DNS_Interpreter::ParseRR_CAA
ParseRR_CAA(P, rdlength) ==
    IF ~Registered("dns_CAA_reply") \/ P.skip_event THEN SkipRdata(P, rdlength)
    ELSE ParseRR_CAA_Flags(ExtractShort(P), rdlength)

-----------------------------------------------------------------------------
(* The message parser.                                                     *)

\* DNS_MsgInfo::DNS_MsgInfo: the header fields the parser reads.
DNS_MsgInfo(data, arg_query) ==
    [QR |-> IF Rd(data, 2) >= 128 THEN 1 ELSE 0,
     qdcount |-> Rd(data, 4) * 256 + Rd(data, 5),
     ancount |-> Rd(data, 6) * 256 + Rd(data, 7),
     nscount |-> Rd(data, 8) * 256 + Rd(data, 9),
     arcount |-> Rd(data, 10) * 256 + Rd(data, 11),
     is_query |-> arg_query]

\* EndMessage without its event.
EndMessage_NoEvent(P) == P

\* DNS_Interpreter::EndMessage
EndMessage(P) == EmitIfRegistered(P, "dns_end", <<>>)

\* DNS_Interpreter::SendReplyOrRejectEvent
SendReplyOrRejectEvent(P, event, question_name) ==
    EmitIfRegistered(ExtractShort(ExtractShort(P)), event, question_name)

\* A choice of question event that follows the is_query of the call.
QuestionEvent_ByCaller(h) ==
    IF h.is_query = 1 THEN "dns_request"
    ELSE IF h.ancount = 0 /\ h.nscount = 0 /\ h.arcount = 0
    THEN "dns_rejected"
    ELSE "dns_query_reply"

\* The handler ParseQuestion picks for a question.
QuestionEvent(h) ==
    IF h.QR = 0 THEN "dns_request"
    ELSE IF h.QR = 1 /\ h.ancount = 0 /\ h.nscount = 0 /\ h.arcount = 0
    THEN "dns_rejected"
    ELSE "dns_query_reply"

\* ParseQuestion after its ExtractName, for the handler it picks.
ParseQuestionEvent(N, dns_event) ==
    IF N.name_end = NULL THEN Fail(N)
    ELSE IF N.len < 4 THEN Fail(Weird(N, "DNS_truncated_quest_too_short"))
    ELSE IF Registered(dns_event) /\ ~N.skip_event
    THEN Succeed(SendReplyOrRejectEvent(N, dns_event, N.name))
    ELSE Succeed(ExtractShort(ExtractShort(N)))

\* ParseQuestion that consumes the question and never sends its event.
ParseQuestion_NoEvent(P, h) == ParseQuestionEvent(NameCall(P, NAME_LEN), "none")

\* DNS_Interpreter::ParseQuestion
ParseQuestion(P, h) == ParseQuestionEvent(NameCall(P, NAME_LEN), QuestionEvent(h))

\* A mark the model leaves in the log when ParseQuestion or ParseAnswer
\* returns: the function, the status it returned and msg->atype at the
\* return (the type of the record, for ParseAnswer).
Returns(P, fn) ==
    [P EXCEPT !.log = Append(@, Entry("return", fn, P.answer_type,
                                      <<P.status, P.atype>>))]

\* return n == 0; of ParseQuestions and ParseAnswers, n being val
LoopStatus(L) == [L EXCEPT !.status = IF L.val = 0 THEN 1 ELSE 0]

RECURSIVE ParseQuestionsLoop(_, _, _)

\* The loop after ParseQuestion returned Q.status.
ParseQuestionsNext(Q, h, n) ==
    IF Q.status = 0 THEN [Q EXCEPT !.val = n] ELSE ParseQuestionsLoop(Q, h, n - 1)

\* while ( n > 0 && ParseQuestion(msg, data, len, msg_start) ) --n;
\* val is n when the loop ends.
ParseQuestionsLoop(P, h, n) ==
    IF n <= 0 THEN [P EXCEPT !.val = n]
    ELSE ParseQuestionsNext(Returns(ParseQuestion(P, h), "ParseQuestion"), h, n)

\* DNS_Interpreter::ParseQuestions
ParseQuestions(P, h) == LoopStatus(ParseQuestionsLoop(P, h, h.qdcount))

\* switch ( msg->atype ) of ParseAnswer
DispatchRR(P, rdlength) ==
    CASE P.atype = TYPE_A -> ParseRR_A(P, rdlength)
      [] P.atype \in {TYPE_A6, TYPE_AAAA} -> ParseRR_AAAA(P, rdlength)
      [] P.atype \in {TYPE_NS, TYPE_CNAME, TYPE_PTR} -> ParseRR_Name(P, rdlength)
      [] P.atype = TYPE_SOA -> ParseRR_SOA(P, rdlength)
      [] P.atype = TYPE_WKS -> ParseRR_WKS(P, rdlength)
      [] P.atype = TYPE_HINFO -> ParseRR_HINFO(P, rdlength)
      [] P.atype = TYPE_MX -> ParseRR_MX(P, rdlength)
      [] P.atype = TYPE_TXT -> ParseRR_TXT(P, rdlength, "dns_TXT_reply")
      [] P.atype = TYPE_SPF -> ParseRR_TXT(P, rdlength, "dns_SPF_reply")
      [] P.atype = TYPE_CAA -> ParseRR_CAA(P, rdlength)
      [] P.atype = TYPE_NBS -> ParseRR_NBS(P, rdlength)
      [] P.atype = TYPE_SRV ->
            IF cfg.resp_port = NETBIOS_PORT THEN Succeed(P)
            ELSE ParseRR_SRV(P, rdlength)
      [] P.atype = TYPE_EDNS -> ParseRR_EDNS(P, rdlength)
      [] P.atype = TYPE_TSIG -> ParseRR_TSIG(P, rdlength)
      [] P.atype = TYPE_RRSIG -> ParseRR_RRSIG(P, rdlength)
      [] P.atype = TYPE_DNSKEY -> ParseRR_DNSKEY(P, rdlength)
      [] P.atype = TYPE_NSEC -> ParseRR_NSEC(P, rdlength)
      [] P.atype = TYPE_NSEC3 -> ParseRR_NSEC3(P, rdlength)
      [] P.atype = TYPE_DS -> ParseRR_DS(P, rdlength)
      [] OTHER ->
            SkipRdata(Weird(EmitUnlessSkipped(P, "dns_unknown_reply", <<>>),
                            "DNS_RR_unknown_type"),
                      rdlength)

\* msg->query_name = new StringVal(new BroString(name, name_end - name, 1));
SetQueryName(N) == [N EXCEPT !.query_name = N.name]

\* msg->atype = RR_Type(ExtractShort(data, len));
ReadAtype(P) == [ExtractShort(P) EXCEPT !.atype = ExtractShort(P).val]

\* msg->aclass = ExtractShort(data, len);
ReadAclass(P) == [ExtractShort(P) EXCEPT !.aclass = ExtractShort(P).val]

\* msg->ttl = ExtractLong(data, len);
ReadTtl(P) == [ExtractLong(P) EXCEPT !.ttl = ExtractLong(P).long]

\* ParseAnswer after rdlength, R.val, was read.
ParseAnswerRdata(R) ==
    IF R.val > R.len THEN Fail(Weird(R, "DNS_truncated_RR_rdlength_lt_len"))
    ELSE DispatchRR(R, R.val)

\* ParseAnswer after its ExtractName.
ParseAnswerFields(N) ==
    IF N.name_end = NULL THEN Fail(N)
    ELSE IF N.len < 4 THEN Fail(Weird(N, "DNS_truncated_ans_too_short"))
    ELSE ParseAnswerRdata(ExtractShort(ReadTtl(ReadAclass(ReadAtype(SetQueryName(N))))))

\* DNS_Interpreter::ParseAnswer
ParseAnswer(P, h) == ParseAnswerFields(NameCall(P, NAME_LEN))

RECURSIVE ParseAnswersLoop(_, _, _)

\* The loop after ParseAnswer returned A.status.
ParseAnswersNext(A, h, n) ==
    IF A.status = 0 THEN [A EXCEPT !.val = n] ELSE ParseAnswersLoop(A, h, n - 1)

\* while ( n > 0 && ParseAnswer(msg, data, len, msg_start) ) --n;
ParseAnswersLoop(P, h, n) ==
    IF n <= 0 THEN [P EXCEPT !.val = n]
    ELSE ParseAnswersNext(Returns(ParseAnswer(P, h), "ParseAnswer"), h, n)

\* DNS_Interpreter::ParseAnswers
ParseAnswers(P, h, n, atype) ==
    LoopStatus(ParseAnswersLoop([P EXCEPT !.answer_type = atype], h, n))

\* What a ParseMessage call leaves: its return value, the parse state at
\* the return, and the interpreter's and the connection's state.
Returned(P, r, fm, fl) == [ret |-> r, P |-> P, first_message |-> fm, flips |-> fl]

\* EndMessage and return, with first_message left set.
Finish_FirstMessageKept(P, r, fl) == Returned(EndMessage(P), r, TRUE, fl)

\* EndMessage(&msg); return r;
Finish(P, r, fl) == Returned(EndMessage(P), r, FALSE, fl)

\* analyzer->ProtocolConfirmation(), analyzer->ProtocolViolation(reason)
Signal(P, name) == [P EXCEPT !.log = Append(@, Entry("signal", name, P.answer_type, <<>>))]

\* skip_auth with the per-responder filter and the zero count applied
\* whatever ancount is.
skip_auth_AnyAncount(h) ==
    cfg.dns_skip_all_auth \/ h.nscount = 0 \/ cfg.in_dns_skip_auth

\* skip_auth and skip_addl of ParseMessage (lines 91-99)
skip_auth(h) ==
    cfg.dns_skip_all_auth \/ (h.ancount > 0 /\ (h.nscount = 0 \/ cfg.in_dns_skip_auth))
skip_addl(h) ==
    cfg.dns_skip_all_addl \/ (h.ancount > 0 /\ (h.arcount = 0 \/ cfg.in_dns_skip_addl))

\* ParseMessage after the additional section was parsed (lines 122-130).
ParseAdditionalEnd(AR, fl) == Finish(AR, IF AR.status = 0 THEN 0 ELSE 1, fl)

\* ParseMessage that goes on after the authority section whatever
\* ParseAnswers returned for it.
ParseAuthorityEnd_Unchecked(NS, h, fl) ==
    IF skip_addl(h) THEN Finish(NS, 1, fl)
    ELSE ParseAdditionalEnd(ParseAnswers([NS EXCEPT !.skip_event = skip_addl(h)], h,
                                         h.arcount, DNS_ADDITIONAL),
                            fl)

\* ParseMessage that goes on to the additional section, its events
\* suppressed, when skip_addl is true.
ParseAuthorityEnd_AdditionalRead(NS, h, fl) ==
    IF NS.status = 0 THEN Finish(NS, 0, fl)
    ELSE ParseAdditionalEnd(ParseAnswers([NS EXCEPT !.skip_event = skip_addl(h)], h,
                                         h.arcount, DNS_ADDITIONAL),
                            fl)

\* ParseMessage after the authority section was parsed (lines 107-130).
ParseAuthorityEnd(NS, h, fl) ==
    IF NS.status = 0 THEN Finish(NS, 0, fl)
    ELSE IF skip_addl(h) THEN Finish(NS, 1, fl)
    ELSE ParseAdditionalEnd(ParseAnswers([NS EXCEPT !.skip_event = skip_addl(h)], h,
                                         h.arcount, DNS_ADDITIONAL),
                            fl)

\* ParseMessage's tail with the additional section parsed before the
\* authority section.
ParseTail_AdditionalFirst(P, h, fl) ==
    ParseAdditionalEnd(
        ParseAnswers(ParseAnswers(P, h, h.arcount, DNS_ADDITIONAL),
                     h, h.nscount, DNS_AUTHORITY),
        fl)

\* ParseMessage that parses the authority section even when both sections
\* are to be skipped.
ParseTail_NoEarlyEnd(P, h, fl) ==
    ParseAuthorityEnd(ParseAnswers([P EXCEPT !.skip_event = skip_auth(h)], h,
                                   h.nscount, DNS_AUTHORITY),
                      h, fl)

\* ParseMessage from the computation of skip_auth on (lines 87-130).
ParseTail(P, h, fl) ==
    IF skip_auth(h) /\ skip_addl(h) THEN Finish(P, 1, fl)
    ELSE ParseAuthorityEnd(ParseAnswers([P EXCEPT !.skip_event = skip_auth(h)], h,
                                        h.nscount, DNS_AUTHORITY),
                           h, fl)

\* ParseMessage that confirms the protocol whatever ParseAnswers returned.
ParseAnswersEnd_Unchecked(AN, h, fl) ==
    ParseTail(Signal(AN, "ProtocolConfirmation"), h, fl)

\* ParseMessage after the answer section was parsed (lines 78-130).
ParseAnswersEnd(AN, h, fl) ==
    IF AN.status = 0 THEN Finish(AN, 0, fl)
    ELSE ParseTail(Signal(AN, "ProtocolConfirmation"), h, fl)

\* ParseMessage after the question section was parsed (lines 71-130).
ParseQuestionsEnd(Q, h, fl) ==
    IF Q.status = 0 THEN Finish(Q, 0, fl)
    ELSE ParseAnswersEnd(ParseAnswers(Q, h, h.ancount, DNS_ANSWER), h, fl)

\* ParseMessage from the question section on (lines 65-130).
ParseBody(P, h, fl) == ParseQuestionsEnd(ParseQuestions(Advance(P, HDR_LEN), h), h, fl)

\* ParseMessage without the ceiling on qdcount.
ParseMessageEvents_NoCeiling(P, h, fl) ==
    ParseBody(EmitIfRegistered(P, "dns_message", <<h.is_query>>), h, fl)

\* ParseMessage from the dns_message event on (lines 47-130), for the
\* header h and fl role flips so far.
ParseMessageEvents(P, h, fl) ==
    IF cfg.dns_max_queries > 0 /\ h.qdcount > cfg.dns_max_queries
    THEN Finish(Weird(Signal(EmitIfRegistered(P, "dns_message", <<h.is_query>>),
                             "ProtocolViolation"),
                      "DNS_Conn_count_too_large"),
                0, fl)
    ELSE ParseBody(EmitIfRegistered(P, "dns_message", <<h.is_query>>), h, fl)

\* ParseMessage that treats the message as a response only when it flips
\* the roles.
ParseMessageRoles_ResponseOnlyIfFlipped(P, h, flip, fl) ==
    ParseMessageEvents(P,
                       IF flip /\ ~cfg.resp_multicast THEN [h EXCEPT !.is_query = 0] ELSE h,
                       IF flip /\ ~cfg.resp_multicast THEN fl + 1 ELSE fl)

\* ParseMessage from the test of first_message on (lines 37-130): flip is
\* first_message && msg.QR && is_query == 1.
ParseMessageRoles(P, h, flip, fl) ==
    ParseMessageEvents(P,
                       IF flip THEN [h EXCEPT !.is_query = 0] ELSE h,
                       IF flip /\ ~cfg.resp_multicast THEN fl + 1 ELSE fl)

\* ParseMessage without its test of len against the header's length.
ParseMessage_NoLengthCheck(data, len, is_query, fm, fl) ==
    ParseMessageRoles(Touch(Touch(NewParse(data, len), 0), HDR_LEN - 1),
                      DNS_MsgInfo(data, is_query),
                      fm /\ DNS_MsgInfo(data, is_query).QR = 1 /\ is_query = 1,
                      fl)

\* DNS_Interpreter::ParseMessage(data, len, is_query), for an interpreter
\* whose first_message is fm on a connection whose roles were flipped fl
\* times.
ParseMessage(data, len, is_query, fm, fl) ==
    IF len < HDR_LEN
    THEN Returned(Weird(NewParse(data, len), "DNS_truncated_len_lt_hdr_len"), 0, fm, fl)
    ELSE ParseMessageRoles(Touch(Touch(NewParse(data, len), 0), HDR_LEN - 1),
                           DNS_MsgInfo(data, is_query),
                           fm /\ DNS_MsgInfo(data, is_query).QR = 1 /\ is_query = 1,
                           fl)

-----------------------------------------------------------------------------
(* The TCP framer, Contents_DNS, and the analyzer's DeliverPacket.         *)
(* A framer F is [state, msg_size, buf_n, buf_len, msg_buf]; msg_buf is    *)
(* the buf_len cells of the buffer, "?" in a cell never written.  With it  *)
(* go path, the assignments to state of the DeliverStream call under way   *)
(* as <<from, to>>, internal, whether Conn()->Internal was called, wild,   *)
(* whether a byte was stored to msg_buf[buf_n] without buf_n < msg_size    *)
(* <= buf_len, and overread, whether more than buf_len bytes of msg_buf    *)
(* were handed to a parser.                                                *)

\* What a DeliverStream call leaves: the framer, and the messages it passed
\* to ForwardPacket, in order.
Delivered(F, out) == [F |-> F, out |-> out]

\* state = s;
SetState(F, s) == [F EXCEPT !.state = s, !.path = Append(@, <<F.state, s>>)]

\* msg_buf = safe_malloc(buf_len) or safe_realloc(msg_buf, buf_len), when
\* there is no buffer or buf_len < msg_size: the buffer grows to msg_size
\* cells and keeps what it held.
GrowBuffer(F) ==
    IF F.buf_len < F.msg_size
    THEN [F EXCEPT !.buf_len = F.msg_size,
                   !.msg_buf = @ \o [i \in 1..(F.msg_size - F.buf_len) |-> "?"]]
    ELSE F

\* for ( n = 0; buf_n < msg_size && n < len; ++n ) msg_buf[buf_n++] = data[n];
\* n when the loop ends
CopyCount(F, len) == IF F.buf_n < F.msg_size THEN Min(F.msg_size - F.buf_n, len) ELSE 0

CopyLoop(F, data) ==
    [F EXCEPT !.msg_buf = [i \in 1..Len(@) |->
                              IF i > F.buf_n /\ i <= F.buf_n + CopyCount(F, Len(data))
                              THEN data[i - F.buf_n] ELSE @[i]],
              !.buf_n = @ + CopyCount(F, Len(data)),
              !.wild = @ \/ (CopyCount(F, Len(data)) > 0 /\ F.msg_size > F.buf_len)]

RECURSIVE DeliverStream(_, _, _)

\* ForwardPacket(msg_size, msg_buf, orig, -1, 0, 0); buf_n = 0;
\* state = DNS_LEN_HI;  (lines 1706-1709)
Forwarded(F) ==
    SetState([F EXCEPT !.buf_n = 0, !.overread = @ \/ F.msg_size > F.buf_len], "DNS_LEN_HI")

\* DeliverStream that drops what follows a complete message in a segment.
DeliverStreamForward_OneMessage(F, data, n, out) ==
    IF F.buf_n < F.msg_size THEN Delivered(F, out)
    ELSE Delivered(Forwarded(F), Append(out, SubSeq(F.msg_buf, 1, F.msg_size)))

\* DeliverStream after its copy loop took n bytes of data (lines 1702-1713).
DeliverStreamForward(F, data, n, out) ==
    IF F.buf_n < F.msg_size THEN Delivered(F, out)
    ELSE IF n < Len(data)
    THEN DeliverStream(Forwarded(F), SubSeq(data, n + 1, Len(data)),
                       Append(out, SubSeq(F.msg_buf, 1, F.msg_size)))
    ELSE Delivered(Forwarded(F), Append(out, SubSeq(F.msg_buf, 1, F.msg_size)))

\* DeliverStream from the test of DNS_MESSAGE_BUFFER on (lines 1695-1713):
\* Conn()->Internal reports the inconsistency and ends the process.
DeliverStreamBuffer(F, data, out) ==
    IF F.state # "DNS_MESSAGE_BUFFER" THEN Delivered([F EXCEPT !.internal = TRUE], out)
    ELSE DeliverStreamForward(CopyLoop(F, data), data, CopyCount(F, Len(data)), out)

\* DeliverStream that reads the second length byte and stays in DNS_LEN_LO.
LengthLo_StateKept(F, b) ==
    GrowBuffer([F EXCEPT !.msg_size = @ + b, !.buf_n = 0])

\* The second length byte, b, read in state DNS_LEN_LO (lines 1670-1687).
LengthLo(F, b) ==
    GrowBuffer(SetState([F EXCEPT !.msg_size = @ + b, !.buf_n = 0], "DNS_MESSAGE_BUFFER"))

\* DeliverStream from the test of DNS_LEN_LO on (lines 1668-1713).
DeliverStreamLo(F, data, out) ==
    IF F.state = "DNS_LEN_LO"
    THEN IF Len(data) = 1
         THEN Delivered(LengthLo(F, data[1]), out)
         ELSE DeliverStreamBuffer(LengthLo(F, data[1]), Tail(data), out)
    ELSE DeliverStreamBuffer(F, data, out)

\* Contents_DNS::DeliverStream(len, data, orig) on the framer F, data being
\* the len >= 1 bytes of the segment; out is what the calls this one
\* recurses from have forwarded.
DeliverStream(F, data, out) ==
    IF F.state = "DNS_LEN_HI"
    THEN IF Len(data) = 1
         THEN Delivered(SetState([F EXCEPT !.msg_size = data[1] * 256], "DNS_LEN_LO"), out)
         ELSE DeliverStreamLo(SetState([F EXCEPT !.msg_size = data[1] * 256], "DNS_LEN_LO"),
                              Tail(data), out)
    ELSE DeliverStreamLo(F, data, out)

\* What the interpreter and the connection are left with after the packets
\* of a DeliverStream call: first_message, the role flips, the return value
\* and the message of the last ParseMessage call, and the events, weirds
\* and signals of them all.
Interp(fm, fl, r, m, lg) ==
    [first_message |-> fm, flips |-> fl, ret |-> r, msg |-> m, log |-> lg]

\* DeliverPacket that reports a failed parse for either direction.
DeliverPacketEvent_EitherSide(R, data, orig, I) ==
    Interp(R.first_message, R.flips, R.ret, data,
           I.log \o R.P.log
             \o (IF R.ret = 0 /\ Registered("non_dns_request")
                 THEN <<Entry("event", "non_dns_request", R.P.answer_type, data)>>
                 ELSE <<>>))

\* DNS_Analyzer::DeliverPacket after its ParseMessage call returned R.
DeliverPacketEvent(R, data, orig, I) ==
    Interp(R.first_message, R.flips, R.ret, data,
           I.log \o R.P.log
             \o (IF orig /\ R.ret = 0 /\ Registered("non_dns_request")
                 THEN <<Entry("event", "non_dns_request", R.P.answer_type, data)>>
                 ELSE <<>>))

\* DNS_Analyzer::DeliverPacket(len, data, orig), on the interpreter I.
DeliverPacket(I, data, orig) ==
    DeliverPacketEvent(ParseMessage(data, Len(data), IF orig THEN 1 ELSE 0,
                                    I.first_message, I.flips),
                       data, orig, I)

RECURSIVE ForwardPackets(_, _, _)
\* ForwardPacket(msg_size, msg_buf, orig, -1, 0, 0) for each message of out,
\* which hands it to DeliverPacket.
ForwardPackets(I, out, orig) ==
    IF out = <<>> THEN I
    ELSE ForwardPackets(DeliverPacket(I, Head(out), orig), Tail(out), orig)

-----------------------------------------------------------------------------
(* Inputs: messages built from a header and a body of question and record  *)
(* encodings, well formed and not.  The parser only ever sees the bytes.   *)

\* Bounds of the model.
MaxQuestions == 2
MaxPerSection == 1

U16(v) == <<v \div 256, v % 256>>

\* A header with the given QR bit and counts (id 1, the other flags 0).
Header(QR, qd, an, ns, ar) ==
    <<0, 1, QR * 128, 0>> \o U16(qd) \o U16(an) \o U16(ns) \o U16(ar)

\* A resource record: owner name, type, class IN, ttl 0, rdlength, rdata.
RR(owner, type, rdata) ==
    owner \o U16(type) \o U16(1) \o <<0, 0, 0, 0>> \o U16(Len(rdata)) \o rdata

\* Questions: the name "A" (upper case) with qtype 1 and qclass 1, a
\* question whose name is the forward pointer c0 20, and a question cut
\* inside its first label, of declared length 4.
Q_A == <<1, 65, 0, 0, 1, 0, 1>>
Q_Forward == <<192, 32, 0, 1, 0, 1>>
Q_Cut == <<4, 97, 0, 0>>

QuestionCatalog == {Q_A, Q_Forward, Q_Cut}

\* Records: an A record whose owner is a pointer to offset 12, an A record
\* of rdlength 2 (which ParseRR_A refuses), a minimal TSIG, and a WKS
\* (address 10.0.0.1, protocol 6, one bitmap byte).
R_A == RR(<<192, 12>>, TYPE_A, <<10, 0, 0, 1>>)
R_BadA == RR(<<0>>, TYPE_A, <<1, 2>>)
R_TSIG == RR(<<0>>, TYPE_TSIG, <<0, 0, 0, 0, 0, 0, 0, 0, 0, 0, 0, 0, 0, 0, 0, 0, 0>>)
R_WKS == RR(<<0>>, TYPE_WKS, <<10, 0, 0, 1, 6, 0>>)

RecordCatalog == {R_A, R_BadA, R_TSIG, R_WKS}

SeqsUpTo(S, n) == UNION { [1..k -> S] : k \in 0..n }

RECURSIVE Concat(_)
Concat(ss) == IF ss = <<>> THEN <<>> ELSE Head(ss) \o Concat(Tail(ss))

\* A section: up to MaxPerSection copies of one record of the catalog.
Sections == { [i \in 1..k |-> c] : c \in RecordCatalog, k \in 0..MaxPerSection }

\* The message whose header declares exactly the questions and records
\* that follow it.
Message(QR, qs, an, ns, ar) ==
    Header(QR, Len(qs), Len(an), Len(ns), Len(ar))
        \o Concat(qs) \o Concat(an) \o Concat(ns) \o Concat(ar)

\* Queries and responses over every sequence of questions, with no record
\* or with one A record in one of the sections.
QuestionMessages ==
    { Message(QR, qs, s[1], s[2], s[3]) :
        QR \in {0, 1},
        qs \in SeqsUpTo(QuestionCatalog, MaxQuestions),
        s \in { <<<<>>, <<>>, <<>>>>, <<<<R_A>>, <<>>, <<>>>>,
                <<<<>>, <<R_A>>, <<>>>>, <<<<>>, <<>>, <<R_A>>>> } }

\* Responses to one question over every choice of the three sections.
SectionMessages ==
    { Message(1, <<Q_A>>, an, ns, ar) : an \in Sections, ns \in Sections, ar \in Sections }

\* Inputs shorter than a header.
ShortMessages == { <<>>, SubSeq(Header(0, 0, 0, 0, 0), 1, HDR_LEN - 1) }

Messages == QuestionMessages \cup SectionMessages \cup ShortMessages

AllHandlers ==
    { "dns_message", "dns_end", "dns_request", "dns_rejected", "dns_query_reply",
      "dns_A_reply", "dns_AAAA_reply", "dns_A6_reply", "dns_NS_reply",
      "dns_CNAME_reply", "dns_PTR_reply", "dns_SOA_reply", "dns_MX_reply",
      "dns_SRV_reply", "dns_TXT_reply", "dns_SPF_reply", "dns_CAA_reply",
      "dns_EDNS_addl", "dns_TSIG_addl", "dns_RRSIG", "dns_DNSKEY", "dns_NSEC",
      "dns_NSEC3", "dns_DS", "dns_unknown_reply", "non_dns_request" }

\* The script-level settings and the connection of a run: a section is
\* skipped for every server, for this server, or not at all.
Configs ==
    { c \in [dns_max_queries : {0, 1},
             dns_skip_all_auth : BOOLEAN, dns_skip_all_addl : BOOLEAN,
             in_dns_skip_auth : BOOLEAN, in_dns_skip_addl : BOOLEAN,
             resp_port : {53},
             resp_multicast : {FALSE},
             handlers : {AllHandlers}] :
        /\ ~(c.dns_skip_all_auth /\ c.in_dns_skip_auth)
        /\ ~(c.dns_skip_all_addl /\ c.in_dns_skip_addl) }

NoCursor == [pos |-> 0, len |-> 0, oob |-> FALSE, neg |-> FALSE]

\* Contents_DNS::Contents_DNS
NoFramer == [state |-> "DNS_LEN_HI", msg_size |-> 0, buf_n |-> 0, buf_len |-> 0,
             msg_buf |-> <<>>, path |-> <<>>, internal |-> FALSE,
             wild |-> FALSE, overread |-> FALSE]

\* A direction of a connection: the bytes TCP delivers in it, how many of
\* them it has delivered, and in how many segments.
Stream(s) == [stream |-> s, at |-> 0, calls |-> 0]
NoStream == Stream(<<>>)

\* No container.
NoQueue == <<>>
NoList == <<>>

\* A connection that was not closed and has no timer.
NoConn == [closes |-> 0]

-----------------------------------------------------------------------------
(* The message parser's specification: ParseMessage calls on one           *)
(* interpreter, one packet after the other.                                *)

Init ==
    /\ pc = "idle"
    /\ msg = <<>>
    /\ arg_is_query = 0
    /\ ret = -1
    /\ log = <<>>
    /\ cursor = NoCursor
    /\ first_message = TRUE
    /\ flips = 0
    /\ cfg \in Configs
    /\ framer = [o \in BOOLEAN |-> NoFramer]
    /\ pending = [o \in BOOLEAN |-> NoStream]
    /\ forwarded = <<>>
    /\ nm = <<>>
    /\ conn = NoConn
    /\ queue = NoQueue
    /\ list = NoList

\* interp->ParseMessage(data, len, is_query)
ParseMessageCall(data, is_query) ==
    /\ pc = "idle"
    /\ LET R == ParseMessage(data, Len(data), is_query, first_message, flips)
       IN  /\ msg' = data
           /\ arg_is_query' = is_query
           /\ ret' = R.ret
           /\ log' = R.P.log
           /\ cursor' = [pos |-> R.P.pos, len |-> R.P.len, oob |-> R.P.oob,
                          neg |-> R.P.neg]
           /\ first_message' = R.first_message
           /\ flips' = R.flips
    /\ pc' = "done"
    /\ UNCHANGED <<cfg, framer, pending, forwarded, nm, conn, queue, list>>

\* The call has returned; the dispatch loop waits for the next packet.
NextPacket ==
    /\ pc = "done"
    /\ pc' = "idle"
    /\ msg' = <<>>
    /\ arg_is_query' = 0
    /\ ret' = -1
    /\ log' = <<>>
    /\ cursor' = NoCursor
    /\ UNCHANGED <<first_message, flips, cfg, framer, pending, forwarded, nm, conn, queue, list>>

\* The next packet is any message of Messages, from either side.
Next ==
    \/ /\ pc = "idle"
       /\ \E data \in Messages, is_query \in {0, 1} : ParseMessageCall(data, is_query)
    \/ NextPacket

Spec == Init /\ [][Next]_vars

-----------------------------------------------------------------------------
(* Reading the log of a call.                                              *)

IsEvent(e, name) == e.k = "event" /\ e.name = name

\* The positions of the log at which the event `name` was emitted.
EventIdx(name) == { i \in 1..Len(log) : IsEvent(log[i], name) }

QuestionEvents == {"dns_request", "dns_rejected", "dns_query_reply"}

\* Positions of question events, and of resource-record events.
QuestionIdx == { i \in 1..Len(log) : log[i].k = "event" /\ log[i].name \in QuestionEvents }

RecordIdx ==
    { i \in 1..Len(log) :
        log[i].k = "event" /\ log[i].name \notin QuestionEvents \cup {"dns_message", "dns_end"} }

RecordIdxOf(atype) == { i \in RecordIdx : log[i].at = atype }

WeirdIdx(name) == { i \in 1..Len(log) : log[i].k = "weird" /\ log[i].name = name }

SignalIdx(name) == { i \in 1..Len(log) : log[i].k = "signal" /\ log[i].name = name }

\* Positions at which fn returned the given status.
ReturnIdx(fn, status) ==
    { i \in 1..Len(log) : log[i].k = "return" /\ log[i].name = fn /\ log[i].arg[1] = status }

\* What the script layer and the framework see: the log without the
\* model's return marks.
IsOutput(e) == e.k # "return"

\* The header fields of the message of the call, read from its bytes.
HdrQR == IF msg[3] >= 128 THEN 1 ELSE 0
HdrCount(k) == msg[2 * k + 3] * 256 + msg[2 * k + 4]
HdrQd == HdrCount(1)
HdrAn == HdrCount(2)
HdrNs == HdrCount(3)
HdrAr == HdrCount(4)

Called == pc = "done"
CalledWithHeader == pc = "done" /\ Len(msg) >= HDR_LEN

-----------------------------------------------------------------------------
(* C2 *)
\* C2: every ParseMessage call with len >= 12 emits exactly one dns_end,
\* after its dns_message and as the last thing before it returns, on every
\* exit path; a call with len < 12 emits no dns_end.
C2_EndOncePerMessage ==
    Called =>
        IF Len(msg) >= HDR_LEN
        THEN /\ Cardinality(EventIdx("dns_end")) = 1
             /\ IsEvent(log[Len(log)], "dns_end")
             /\ \E i \in EventIdx("dns_message") : i < Len(log)
        ELSE EventIdx("dns_end") = {}

\* A call that failed inside a record of the authority section and still
\* ended the message.
C2_Witness ==
    /\ Called /\ ret = 0
    /\ \E i \in ReturnIdx("ParseAnswer", 0) : log[i].at = DNS_AUTHORITY
    /\ EventIdx("dns_end") # {}

(* C5 *)
\* The question section is parsed: the qdcount ceiling does not apply.
QuestionsParsed ==
    CalledWithHeader /\ ~(cfg.dns_max_queries > 0 /\ HdrQd > cfg.dns_max_queries)

\* The name of the first question is a compression pointer whose offset is
\* not smaller than its own position, 12.
FirstQuestionForward ==
    /\ QuestionsParsed /\ HdrQd >= 1 /\ Len(msg) >= HDR_LEN + 2
    /\ msg[HDR_LEN + 1] >= 192
    /\ (msg[HDR_LEN + 1] % 64) * 256 + msg[HDR_LEN + 2] >= HDR_LEN

\* C5: when the name of a question is a compression pointer whose offset is
\* not smaller than the pointer's position, ParseMessage emits the weird
\* DNS_label_forward_compress_offset, returns 0 and still emits dns_end,
\* whatever follows the pointer.
C5_ForwardPointerFailsMessage ==
    FirstQuestionForward =>
        /\ WeirdIdx("DNS_label_forward_compress_offset") # {}
        /\ ret = 0
        /\ EventIdx("dns_end") # {}

HeaderQuestionEvent ==
    IF HdrQR = 0 THEN "dns_request"
    ELSE IF HdrAn = 0 /\ HdrNs = 0 /\ HdrAr = 0 THEN "dns_rejected"
    ELSE "dns_query_reply"

\* C7: a question event is dns_request when QR = 0, dns_rejected when QR = 1
\* and the three record counts are 0, dns_query_reply otherwise, whatever
\* is_query the caller passed and whether or not the roles were flipped.
C7_QuestionEventFromHeader ==
    CalledWithHeader => \A i \in QuestionIdx : log[i].name = HeaderQuestionEvent

\* The first message of a connection, a response passed as a query: the
\* roles are flipped (dns_message reports is_query 0) and the question is
\* reported as rejected.
C7_Witness ==
    /\ Called /\ arg_is_query = 1 /\ flips = 1
    /\ Len(log) > 1 /\ IsEvent(log[1], "dns_message") /\ log[1].arg = <<0>>
    /\ \E i \in QuestionIdx : log[i].name = "dns_rejected"

(* C8 *)
\* skip_auth and skip_addl as ParseMessage computes them for the call.
SkipAuth ==
    cfg.dns_skip_all_auth \/ (HdrAn > 0 /\ (HdrNs = 0 \/ cfg.in_dns_skip_auth))
SkipAddl ==
    cfg.dns_skip_all_addl \/ (HdrAn > 0 /\ (HdrAr = 0 \/ cfg.in_dns_skip_addl))

\* A well-formed message: the call returned 1 and reported nothing weird.
WellFormed ==
    CalledWithHeader /\ ret = 1 /\ \A i \in 1..Len(log) : log[i].k # "weird"

\* The record types whose parser only skips the payload.
SilentTypes == {TYPE_WKS, TYPE_HINFO, TYPE_NBS}

\* The returns of ParseAnswer in a section, and the type of the record of
\* a return.
AnswerReturns(atype) ==
    { i \in 1..Len(log) : log[i].k = "return" /\ log[i].name = "ParseAnswer"
                          /\ log[i].at = atype }
TypeAt(i) == log[i].arg[2]

\* The record whose ParseAnswer returned at i produced an event.
Evented(i) == i > 1 /\ (i - 1) \in RecordIdxOf(log[i].at)

Rank(e) ==
    CASE e.name = "dns_message" -> 0
      [] e.name \in QuestionEvents -> 1
      [] e.name = "dns_end" -> 5
      [] OTHER -> CASE e.at = DNS_ANSWER -> 2
                    [] e.at = DNS_AUTHORITY -> 3
                    [] e.at = DNS_ADDITIONAL -> 4
                    [] OTHER -> 6

AllEventIdx == { i \in 1..Len(log) : log[i].k = "event" }

\* C9: the events of a call come in section order: dns_message first, then
\* question events, then the record events of the answer, authority and
\* additional sections in that order, then dns_end, and nothing (event,
\* weird or signal) comes after dns_end.
C9_SectionOrder ==
    CalledWithHeader =>
        /\ \A i, j \in AllEventIdx : i < j => Rank(log[i]) <= Rank(log[j])
        /\ \A i \in AllEventIdx : Rank(log[i]) <= 5
        /\ \A i \in AllEventIdx : Rank(log[i]) = 0 => \A j \in AllEventIdx : i <= j
        /\ \A i \in EventIdx("dns_end") : i = Len(log)
        /\ \A i \in QuestionIdx : log[i].at = DNS_QUESTION

\* A message with an event of every rank.
C9_Witness ==
    /\ Called
    /\ \A r \in 0..5 : \E i \in AllEventIdx : Rank(log[i]) = r

(* C10 *)
\* C10: ProtocolConfirmation is signalled at most once in a call; when it
\* is, ParseQuestion has returned 1 qdcount times and ParseAnswer has
\* returned 1 ancount times for the answer section, and neither has returned
\* 0; and every record event of the authority or additional section comes
\* after it.
C10_ConfirmationAfterAnswers ==
    CalledWithHeader =>
        /\ Cardinality(SignalIdx("ProtocolConfirmation")) <= 1
        /\ \A c \in SignalIdx("ProtocolConfirmation") :
              /\ Cardinality({ i \in ReturnIdx("ParseQuestion", 1) : i < c }) = HdrQd
              /\ Cardinality({ i \in ReturnIdx("ParseAnswer", 1) :
                                 i < c /\ log[i].at = DNS_ANSWER }) = HdrAn
              /\ \A i \in 1..c : log[i].k = "return" => log[i].arg[1] = 1
        /\ \A j \in RecordIdxOf(DNS_AUTHORITY) \cup RecordIdxOf(DNS_ADDITIONAL) :
              \E c \in SignalIdx("ProtocolConfirmation") : c < j

\* A call that parsed a question and an answer, confirmed the protocol and
\* then emitted an authority and an additional record event.
C10_Witness ==
    /\ CalledWithHeader /\ HdrQd >= 1 /\ HdrAn >= 1
    /\ SignalIdx("ProtocolConfirmation") # {}
    /\ RecordIdxOf(DNS_AUTHORITY) # {} /\ RecordIdxOf(DNS_ADDITIONAL) # {}

-----------------------------------------------------------------------------
(* The record parsers' specification: the first ParseMessage call of an    *)
(* interpreter, on a response that holds one record of any type whose      *)
(* payload is arbitrary, with an rdlength that may or may not match it, or *)
(* on a response that is cut anywhere.                                     *)

\* Bound of the model: the length of the arbitrary end of a payload.
MaxTail == 2

\* The bytes of the arbitrary end: a terminator, label and string lengths
\* 1 and 3, and the first byte of a compression pointer.
TailBytes == {0, 1, 3, 192}

\* The zero bytes a payload starts with, which take the parsers past their
\* fixed fields.
ZeroPrefixes == {0, 8, 18}

\* Every dispatched type, and 0 for the types that are not.
RecordTypes ==
    { TYPE_A, TYPE_NS, TYPE_CNAME, TYPE_SOA, TYPE_WKS, TYPE_PTR, TYPE_HINFO,
      TYPE_MX, TYPE_TXT, TYPE_AAAA, TYPE_NBS, TYPE_SRV, TYPE_A6, TYPE_EDNS,
      TYPE_DS, TYPE_RRSIG, TYPE_NSEC, TYPE_DNSKEY, TYPE_NSEC3, TYPE_SPF,
      TYPE_TSIG, TYPE_CAA, 0 }

Zeros(n) == [i \in 1..n |-> 0]

\* A response with no question and one answer record: root owner, the
\* type, class IN, ttl 0, the declared rdlength, the payload.
RecordMessage(type, rdlength, rdata) ==
    Header(1, 0, 1, 0, 0) \o <<0>> \o U16(type) \o U16(1) \o <<0, 0, 0, 0>>
        \o U16(rdlength) \o rdata

\* The declared lengths tried for a payload of n bytes.
DeclaredLengths(n) == {0, n, n + 1} \cup (IF n > 0 THEN {n - 1} ELSE {})

\* A response with the question "A" and an A record, cut after n bytes.
CutMessage(n) == SubSeq(Message(1, <<Q_A>>, <<R_A>>, <<>>, <<>>), 1, n)
FullLen == Len(Message(1, <<Q_A>>, <<R_A>>, <<>>, <<>>))

RecordConfigs ==
    [dns_max_queries : {0},
     dns_skip_all_auth : {FALSE}, dns_skip_all_addl : {FALSE},
     in_dns_skip_auth : {FALSE}, in_dns_skip_addl : {FALSE},
     resp_port : {53, NETBIOS_PORT},
     resp_multicast : {FALSE},
     handlers : {AllHandlers}]

RecordInit ==
    /\ pc = "idle"
    /\ msg = <<>>
    /\ arg_is_query = 0
    /\ ret = -1
    /\ log = <<>>
    /\ cursor = NoCursor
    /\ first_message = TRUE
    /\ flips = 0
    /\ cfg \in RecordConfigs
    /\ framer = [o \in BOOLEAN |-> NoFramer]
    /\ pending = [o \in BOOLEAN |-> NoStream]
    /\ forwarded = <<>>
    /\ nm = <<>>
    /\ conn = NoConn
    /\ queue = NoQueue
    /\ list = NoList

\* ParseMessage on a response with one record.
ParseRecordCall(type, rdlength, rdata) ==
    ParseMessageCall(RecordMessage(type, rdlength, rdata), 0)

\* ParseMessage on a response cut after n bytes.
ParseCutCall(n) == ParseMessageCall(CutMessage(n), 0)

\* What follows a record's owner name before its payload: type, class IN,
\* ttl 0 and rdlength 0.
FixedFields(type) == U16(type) \o U16(1) \o <<0, 0, 0, 0>> \o U16(0)

\* A response with no question and one answer record of root owner, cut
\* n bytes after the owner name.
ShortRecord(type, n) == Header(1, 0, 1, 0, 0) \o <<0>> \o SubSeq(FixedFields(type), 1, n)

\* ParseMessage on a response whose record ends inside its fixed fields.
ParseShortCall(type, n) == ParseMessageCall(ShortRecord(type, n), 0)

RecordNext ==
    \/ /\ pc = "idle"
       /\ \E type \in RecordTypes, z \in ZeroPrefixes, t \in SeqsUpTo(TailBytes, MaxTail) :
             \E rdlength \in DeclaredLengths(z + Len(t)) :
                 ParseRecordCall(type, rdlength, Zeros(z) \o t)
    \/ /\ pc = "idle"
       /\ \E n \in 0..FullLen : ParseCutCall(n)
    \/ /\ pc = "idle"
       /\ \E type \in RecordTypes :
             \E n \in 0..(Len(FixedFields(type)) - 1) : ParseShortCall(type, n)

RecordSpec == RecordInit /\ [][RecordNext]_vars

(* C4 *)
\* C4: in a ParseMessage call on any byte string every byte read lies
\* inside the message, the remaining length never goes below 0, and when
\* the call returns the cursor's position plus the remaining length is the
\* end of the message.
C4_ReadsInsideMessage ==
    Called =>
        /\ ~cursor.oob
        /\ ~cursor.neg /\ cursor.len >= 0
        /\ cursor.pos + cursor.len = Len(msg)

\* A record whose declared rdlength is 4 and that is parsed to the end of
\* a message that stops inside its payload's last string.
C4_Witness ==
    /\ CalledWithHeader /\ HdrAn = 1
    /\ cursor.len = 0 /\ cursor.pos = Len(msg)
    /\ WeirdIdx("DNS_TXT_char_str_past_rdlen") # {}

-----------------------------------------------------------------------------
(* The name decoder's specification: one ExtractName call on any small     *)
(* buffer, from any offset of it.                                          *)

\* Bound of the model: the length of the buffer.
MaxNameBuf == 6

\* The bytes of the buffer: the terminator, label lengths 1 and 2, and the
\* first byte of a compression pointer; a pointer's second byte makes its
\* offset 0, 1, 2 or 192.
NameBytes == {0, 1, 2, 192}

\* Names with a label at the 63-byte limit or over it: nothing or the
\* label "A" first, then a length byte of 63, 64 or 191 followed by one
\* byte fewer than it announces, or by as many, or by as many and the
\* terminator; the label's bytes are all "A".
LongLabelBuffers ==
    { pre \o <<L>> \o [i \in 1..(L - short) |-> 65] \o end :
        pre \in {<<>>, <<1, 65>>}, L \in {63, 64, 191},
        short \in {0, 1}, end \in {<<>>, <<0>>} }

\* Names of letters and dots: the terminator, label length 1, ".", "A",
\* "a", and the first byte of a compression pointer.
MaxCaseBuf == 4
CaseBytes == {0, 1, 46, 65, 97, 192}
CaseBuffers == SeqsUpTo(CaseBytes, MaxCaseBuf)

\* n labels of L bytes each, all "A".
RECURSIVE LabelsOf(_, _)
LabelsOf(n, L) == IF n = 0 THEN <<>> ELSE <<L>> \o [i \in 1..L |-> 65] \o LabelsOf(n - 1, L)

\* Names that fill the name buffer: seven labels of 63 bytes, one of 61,
\* 62 or 63, one of a single byte and the terminator; two labels of 191
\* bytes, one of 126, 127 or 128 and one of a single byte; and seven labels
\* of 63 bytes, an eighth and a pointer to the first.
FullNameBuffers ==
    { LabelsOf(7, 63) \o LabelsOf(1, L) \o <<1, 65, 0>> : L \in {61, 62, 63} }
      \cup { LabelsOf(2, 191) \o LabelsOf(1, L) \o <<1, 65, 0>> : L \in {126, 127, 128} }
      \cup { LabelsOf(7, 63) \o LabelsOf(1, L) \o <<192, 0>> : L \in {62, 63} }

NameBuffers ==
    SeqsUpTo(NameBytes, MaxNameBuf) \cup LongLabelBuffers \cup CaseBuffers
        \cup FullNameBuffers

NameConfigs ==
    [dns_max_queries : {0},
     dns_skip_all_auth : {FALSE}, dns_skip_all_addl : {FALSE},
     in_dns_skip_auth : {FALSE}, in_dns_skip_addl : {FALSE},
     resp_port : {53, NETBIOS_PORT},
     resp_multicast : {FALSE},
     handlers : {AllHandlers}]

NameInit ==
    /\ pc = "idle"
    /\ msg = <<>>
    /\ arg_is_query = 0
    /\ ret = -1
    /\ log = <<>>
    /\ cursor = NoCursor
    /\ first_message = TRUE
    /\ flips = 0
    /\ cfg \in NameConfigs
    /\ framer = [o \in BOOLEAN |-> NoFramer]
    /\ pending = [o \in BOOLEAN |-> NoStream]
    /\ forwarded = <<>>
    /\ nm = <<>>
    /\ conn = NoConn
    /\ queue = NoQueue
    /\ list = NoList

\* What the model keeps of the state an ExtractName call returned.
NameResult(R, start) ==
    [start |-> start, pos |-> R.pos, len |-> R.len, name |-> R.name,
     ptrs |-> R.ptrs, decoded |-> R.decoded, labels |-> R.labels, stuck |-> R.stuck,
     low |-> R.low, refused |-> R.refused, name_len |-> R.name_len]

\* ExtractName(data, len, name, name_len, msg_start) with msg_start = buf,
\* data = buf + start and len = the bytes from there to the end of buf.
ExtractNameCall(buf, start) ==
    /\ pc = "idle"
    /\ LET R == NameCall([NewParse(buf, Len(buf)) EXCEPT !.pos = start,
                                                         !.len = Len(buf) - start],
                         NAME_LEN)
       IN  /\ nm' = NameResult(R, start)
           /\ log' = R.log
           /\ cursor' = [pos |-> R.pos, len |-> R.len, oob |-> R.oob, neg |-> R.neg]
    /\ msg' = buf
    /\ pc' = "done"
    /\ UNCHANGED <<arg_is_query, ret, first_message, flips, cfg, framer, pending, forwarded,
                   conn, queue, list>>

NameNext ==
    /\ pc = "idle"
    /\ \E buf \in NameBuffers : \E start \in 0..Len(buf) : ExtractNameCall(buf, start)

NameSpec == NameInit /\ [][NameNext]_vars

NameCalled == pc = "done" /\ nm # <<>>

\* The pointers followed form one chain, outermost first: each was met in
\* the nested decode of the one before it.
PointerChain ==
    \A i \in 1..(Len(nm.ptrs) - 1) :
        /\ nm.ptrs[i + 1].at < nm.ptrs[i].at
        /\ nm.ptrs[i + 1].at >= nm.ptrs[i].to

\* Every pointer followed has its target before it, and its nested decode
\* stayed between the target and the pointer.
PointersBackward ==
    \A i \in 1..Len(nm.ptrs) :
        /\ nm.ptrs[i].to < nm.ptrs[i].at
        /\ nm.ptrs[i].to <= nm.ptrs[i].end
        /\ nm.ptrs[i].end <= nm.ptrs[i].at

NoOffsetTwice ==
    \A i, j \in 1..Len(nm.decoded) : i # j => nm.decoded[i] # nm.decoded[j]

(* C3 *)
\* C3 as the specification states it: an ExtractName call returns without
\* nesting deeper than the message is long, every pointer followed has its
\* target before it and a nested decode confined to the bytes before it,
\* the pointer positions strictly decrease along the chain, and no offset is
\* decoded twice.
C3_NoOffsetDecodedTwice ==
    NameCalled =>
        /\ ~nm.stuck /\ Len(nm.ptrs) <= Len(msg)
        /\ PointersBackward /\ PointerChain
        /\ NoOffsetTwice

\* C3, as the code has it: the same, without the last clause; a nested
\* decode may go again over bytes that were decoded before the jump.
C3_PointersStrictlyDecrease ==
    NameCalled =>
        /\ ~nm.stuck /\ Len(nm.ptrs) <= Len(msg)
        /\ PointersBackward /\ PointerChain

\* A call that followed a chain of two pointers, the second of which led
\* back to a label that the first nested decode had already gone over.
C3_Witness ==
    /\ NameCalled /\ Len(nm.ptrs) = 2
    /\ ~NoOffsetTwice
    /\ nm.name # <<>>
-----------------------------------------------------------------------------
(* FramerSpec: DNS over TCP. Each direction has a byte stream, which TCP   *)
(* delivers to that direction's Contents_DNS in segments of any size.      *)

MaxStream == 5
StreamBytes == {0, 1, 2}

\* A query of one question in its frame.
FramedQuery == <<0, 19>> \o Header(1, 0, 0, 0, 0) \o Q_A

\* Two frames, of one byte and of two.
TwoFrames == <<0, 1, 1, 0, 2, 1, 2>>

OrigStreams == SeqsUpTo(StreamBytes, MaxStream) \cup {FramedQuery, TwoFrames}
RespStreams == {<<>>, <<0, 1, 2>>}

FramerConfigs ==
    { c \in Configs : /\ ~c.dns_skip_all_auth /\ ~c.dns_skip_all_addl
                      /\ ~c.in_dns_skip_auth /\ ~c.in_dns_skip_addl
                      /\ c.dns_max_queries = 0 }

FramerInit ==
    /\ pc = "idle"
    /\ msg = <<>>
    /\ arg_is_query = 0
    /\ ret = -1
    /\ log = <<>>
    /\ cursor = NoCursor
    /\ first_message = TRUE
    /\ flips = 0
    /\ cfg \in FramerConfigs
    /\ framer = [o \in BOOLEAN |-> NoFramer]
    /\ \E so \in OrigStreams, sr \in RespStreams :
          pending = [o \in BOOLEAN |-> IF o THEN Stream(so) ELSE Stream(sr)]
    /\ forwarded = <<>>
    /\ nm = <<>>
    /\ conn = NoConn
    /\ queue = NoQueue
    /\ list = NoList

\* DeliverStream on a connection whose two directions share one framer.
DeliverStreamEnd_SharedFramer(D, I, orig, k) ==
    /\ framer' = [o \in BOOLEAN |-> D.F]
    /\ forwarded' = forwarded \o [i \in 1..Len(D.out) |-> <<D.out[i], orig>>]
    /\ pending' = [pending EXCEPT ![orig].at = @ + k, ![orig].calls = @ + 1]
    /\ first_message' = I.first_message
    /\ flips' = I.flips
    /\ ret' = I.ret
    /\ msg' = I.msg
    /\ log' = I.log
    /\ UNCHANGED <<pc, arg_is_query, cursor, cfg, nm, conn, queue, list>>

\* The framer of direction orig took a segment and forwarded D.out.
DeliverStreamEnd(D, I, orig, k) ==
    /\ framer' = [framer EXCEPT ![orig] = D.F]
    /\ forwarded' = forwarded \o [i \in 1..Len(D.out) |-> <<D.out[i], orig>>]
    /\ pending' = [pending EXCEPT ![orig].at = @ + k, ![orig].calls = @ + 1]
    /\ first_message' = I.first_message
    /\ flips' = I.flips
    /\ ret' = I.ret
    /\ msg' = I.msg
    /\ log' = I.log
    /\ UNCHANGED <<pc, arg_is_query, cursor, cfg, nm, conn, queue, list>>

DeliverStreamOut(D, orig, k) ==
    DeliverStreamEnd(D, ForwardPackets(Interp(first_message, flips, -1, <<>>, <<>>),
                                       D.out, orig),
                     orig, k)

\* TCP delivers the next k bytes of direction orig in one segment.
DeliverStreamCall(orig, k) ==
    DeliverStreamOut(DeliverStream([framer[orig] EXCEPT !.path = <<>>],
                                   SubSeq(pending[orig].stream, pending[orig].at + 1,
                                          pending[orig].at + k),
                                   <<>>),
                     orig, k)

FramerNext ==
    \E orig \in BOOLEAN :
        \E k \in 1..(Len(pending[orig].stream) - pending[orig].at) :
            DeliverStreamCall(orig, k)

FramerSpec == FramerInit /\ [][FramerNext]_vars

RECURSIVE IsFrames(_)
\* s is a sequence of complete frames, each with a payload of L >= 1 bytes.
IsFrames(s) ==
    \/ s = <<>>
    \/ /\ Len(s) >= 2
       /\ s[1] * 256 + s[2] >= 1
       /\ Len(s) >= 2 + s[1] * 256 + s[2]
       /\ IsFrames(SubSeq(s, 3 + s[1] * 256 + s[2], Len(s)))

RECURSIVE Payloads(_)
\* The payloads of the complete frames of s, in order.
Payloads(s) ==
    IF Len(s) < 2 \/ Len(s) < 2 + s[1] * 256 + s[2] THEN <<>>
    ELSE <<SubSeq(s, 3, 2 + s[1] * 256 + s[2])>>
           \o Payloads(SubSeq(s, 3 + s[1] * 256 + s[2], Len(s)))

FromOrig(e) == e[2]
FromResp(e) == ~e[2]
\* The messages forwarded for direction orig so far, in order.
ForwardedOf(orig) ==
    IF orig THEN [i \in 1..Len(SelectSeq(forwarded, FromOrig)) |->
                     SelectSeq(forwarded, FromOrig)[i][1]]
    ELSE [i \in 1..Len(SelectSeq(forwarded, FromResp)) |->
             SelectSeq(forwarded, FromResp)[i][1]]

AllDelivered(orig) == pending[orig].at = Len(pending[orig].stream)

(* C1 *)
\* When a direction's stream is a sequence of frames with payloads of one
\* byte or more and all of it has been delivered, however it was cut into
\* segments, the messages forwarded for the direction are the frames'
\* payloads, each once, whole and in order, and they are the messages a
\* single DeliverStream call on the whole stream forwards.
C1_FramesForwardedWhole ==
    \A orig \in BOOLEAN :
        (AllDelivered(orig) /\ IsFrames(pending[orig].stream)
           /\ pending[orig].stream # <<>>)
        => /\ ForwardedOf(orig) = Payloads(pending[orig].stream)
           /\ ForwardedOf(orig) = DeliverStream(NoFramer, pending[orig].stream, <<>>).out

\* Two frames delivered a byte at a time, and both forwarded.
C1_Witness ==
    /\ AllDelivered(TRUE)
    /\ IsFrames(pending[TRUE].stream)
    /\ pending[TRUE].calls = Len(pending[TRUE].stream)
    /\ Len(ForwardedOf(TRUE)) = 2
-----------------------------------------------------------------------------
(* Further properties of ParseMessage calls, under Spec.                   *)

\* A step that is a ParseMessage call.
IsCall == pc = "idle" /\ pc' = "done"

(* C11 *)
\* C11: a ParseMessage call on fewer than 12 bytes emits the weird
\* DNS_truncated_len_lt_hdr_len and nothing else (no dns_message, no
\* dns_end, no other event or signal), returns 0, and leaves the
\* connection's roles as they were.
C11_ShortMessageRejected ==
    [][(IsCall /\ Len(msg') < HDR_LEN)
         => /\ ret' = 0
            /\ Len(log') = 1
            /\ log'[1].k = "weird"
            /\ log'[1].name = "DNS_truncated_len_lt_hdr_len"
            /\ flips' = flips]_vars

\* An 11-byte input rejected on a connection whose roles were swapped by
\* an earlier message.
C11_Witness ==
    /\ Called /\ Len(msg) = HDR_LEN - 1 /\ ret = 0
    /\ WeirdIdx("DNS_truncated_len_lt_hdr_len") # {}
    /\ flips = 1

\* The names of what a call emitted, in order.
LogNames == [i \in 1..Len(log) |-> log[i].name]

\* The header's qdcount is over the ceiling.
OverCeiling == cfg.dns_max_queries > 0 /\ HdrQd > cfg.dns_max_queries

(* C12 *)
\* C12: when dns_max_queries > 0 and the header's qdcount is larger, the
\* call emits dns_message, the ProtocolViolation signal, the weird
\* DNS_Conn_count_too_large and dns_end, nothing else (no question or
\* record event, no ProtocolConfirmation), and returns 0; when
\* dns_max_queries = 0, or qdcount is within the ceiling, neither the
\* violation nor the weird is raised.
C12_QueryCeiling ==
    CalledWithHeader =>
        IF OverCeiling
        THEN /\ ret = 0
             /\ LogNames = <<"dns_message", "ProtocolViolation",
                             "DNS_Conn_count_too_large", "dns_end">>
        ELSE /\ WeirdIdx("DNS_Conn_count_too_large") = {}
             /\ SignalIdx("ProtocolViolation") = {}

\* Two questions declared with a ceiling of one.
C12_Witness ==
    /\ CalledWithHeader /\ cfg.dns_max_queries = 1 /\ HdrQd = 2
    /\ WeirdIdx("DNS_Conn_count_too_large") # {}
    /\ ret = 0
\* Positions at which a question or a record failed to parse, which makes
\* ParseQuestions or ParseAnswers return false.
FailedIdx == ReturnIdx("ParseQuestion", 0) \cup ReturnIdx("ParseAnswer", 0)

(* C15 *)
\* C15: a ParseMessage call that gets past the qdcount ceiling returns 0
\* exactly when one of its section parses returned false; the message ends
\* at that point, with dns_end emitted next and no later question, record
\* or section parsed; it returns 1 only when every question and record it
\* parsed succeeded.
C15_SubParseFailureEndsMessage ==
    (CalledWithHeader /\ ~OverCeiling) =>
        /\ ret \in {0, 1}
        /\ (ret = 0) <=> (FailedIdx # {})
        /\ \A i \in FailedIdx :
              /\ i = Len(log) - 1
              /\ IsEvent(log[Len(log)], "dns_end")

\* The answer section failed on its record and the authority section,
\* which the header declares, was not parsed.
C15_Witness ==
    /\ CalledWithHeader /\ ret = 0 /\ HdrNs > 0
    /\ \E i \in ReturnIdx("ParseAnswer", 0) : log[i].at = DNS_ANSWER
    /\ \A i \in 1..Len(log) : log[i].at # DNS_AUTHORITY
    /\ IsEvent(log[Len(log)], "dns_end")


\* The authority section was parsed with its events skipped.
AuthorityEventsSkipped == CalledWithHeader /\ ~OverCeiling /\ SkipAuth /\ ~SkipAddl

(* C16 *)
\* C16: while the authority section is parsed with skip_event set, no
\* event is emitted for any of its records, whatever their type, and the
\* records are still consumed: a well-formed message is parsed to its end.
C16_NoEventWhileSkipped ==
    AuthorityEventsSkipped =>
        /\ RecordIdxOf(DNS_AUTHORITY) = {}
        /\ WellFormed => cursor.pos = Len(msg)

-----------------------------------------------------------------------------
(* PacketSpec: the packets of one connection, from either side, handed to  *)
(* DNS_Analyzer::DeliverPacket one after the other; the responder's        *)
(* address is unicast or multicast.  forwarded is the packets so far.      *)

MaxPackets == 3

\* Two inputs shorter than a header, a query, a response with an answer, a
\* response that is a header only, and a response cut inside its question.
PacketMessages ==
    ShortMessages
      \cup { Message(0, <<Q_A>>, <<>>, <<>>, <<>>), Message(1, <<Q_A>>, <<R_A>>, <<>>, <<>>),
             Header(1, 0, 0, 0, 0), Message(1, <<Q_Cut>>, <<>>, <<>>, <<>>) }

PacketConfigs ==
    [dns_max_queries : {0},
     dns_skip_all_auth : {FALSE}, dns_skip_all_addl : {FALSE},
     in_dns_skip_auth : {FALSE}, in_dns_skip_addl : {FALSE},
     resp_port : {53},
     resp_multicast : BOOLEAN,
     handlers : {AllHandlers, AllHandlers \ {"non_dns_request"}}]

PacketInit ==
    /\ pc = "idle"
    /\ msg = <<>>
    /\ arg_is_query = 0
    /\ ret = -1
    /\ log = <<>>
    /\ cursor = NoCursor
    /\ first_message = TRUE
    /\ flips = 0
    /\ cfg \in PacketConfigs
    /\ framer = [o \in BOOLEAN |-> NoFramer]
    /\ pending = [o \in BOOLEAN |-> NoStream]
    /\ forwarded = <<>>
    /\ nm = <<>>
    /\ conn = NoConn
    /\ queue = NoQueue
    /\ list = NoList

\* DeliverPacket returned, leaving the interpreter and the connection as I.
DeliverPacketEnd(I, data, orig) ==
    /\ msg' = data
    /\ arg_is_query' = IF orig THEN 1 ELSE 0
    /\ ret' = I.ret
    /\ log' = I.log
    /\ first_message' = I.first_message
    /\ flips' = I.flips
    /\ forwarded' = Append(forwarded, <<data, orig>>)
    /\ pc' = "done"
    /\ UNCHANGED <<cursor, cfg, framer, pending, nm, conn, queue, list>>

\* DNS_Analyzer::DeliverPacket(len, data, orig, ...) for the next packet.
DeliverPacketCall(data, orig) ==
    DeliverPacketEnd(DeliverPacket(Interp(first_message, flips, -1, <<>>, <<>>), data, orig),
                     data, orig)

PacketNext ==
    \/ /\ pc = "idle"
       /\ Len(forwarded) < MaxPackets
       /\ \E data \in PacketMessages, orig \in BOOLEAN : DeliverPacketCall(data, orig)
    \/ NextPacket

PacketSpec == PacketInit /\ [][PacketNext]_vars

\* The QR bit of a message that has a header.
QROf(m) == IF m[3] >= 128 THEN 1 ELSE 0

\* The packets before the one of this step were all shorter than a header.
OnlyShortBefore == \A i \in 1..Len(forwarded) : Len(forwarded[i][1]) < HDR_LEN

(* C13 *)
\* C13 as stated: over the ParseMessage calls of one connection the roles
\* are flipped at most once, and only during the first call made for the
\* connection.
C13_FlipOnlyInFirstCall ==
    [][(IsCall /\ flips' # flips) => (flips = 0 /\ flips' = 1 /\ forwarded = <<>>)]_vars

\* C13: over the ParseMessage calls of one connection the roles are
\* flipped at most once, and only during the first call whose input has a
\* whole header (len >= 12), every call before it having been rejected as
\* shorter than a header; every later call, with is_query = 1 and QR = 1
\* too, leaves the roles unchanged.
C13_FlipOnlyInFirstWholeMessage ==
    [][(IsCall /\ flips' # flips)
         => /\ flips = 0 /\ flips' = 1
            /\ Len(msg') >= HDR_LEN
            /\ first_message /\ ~first_message'
            /\ OnlyShortBefore]_vars

\* The roles were flipped by the second packet, the first being shorter
\* than a header, and a third response from the originator's side left
\* them as they were.
C13_Witness ==
    /\ Called /\ Len(forwarded) = 3 /\ flips = 1
    /\ Len(forwarded[1][1]) < HDR_LEN
    /\ Len(forwarded[2][1]) >= HDR_LEN /\ QROf(forwarded[2][1]) = 1 /\ forwarded[2][2]
    /\ Len(msg) >= HDR_LEN /\ QROf(msg) = 1 /\ arg_is_query = 1

\* The call of this step is for the connection's first message, marked as
\* a query by the caller, with the QR bit set.
RoleMismatch == first_message /\ arg_is_query' = 1 /\ QROf(msg') = 1

\* The is_query that the call of this step reported in dns_message.
ReportedIsQuery == log'[1].arg[1]

(* C14 *)
\* C14 as stated: the roles are swapped and the message is treated as a
\* response (dns_message reports is_query 0) when it is the connection's
\* first message, the caller passed is_query = 1 with the QR bit set, and
\* the responder is not multicast; when one of the three fails, neither
\* the roles nor the caller's is_query is changed.
C14_FlipAndResponseTogether ==
    [][(IsCall /\ Len(msg') >= HDR_LEN)
         => /\ log'[1].name = "dns_message"
            /\ IF RoleMismatch /\ ~cfg.resp_multicast
               THEN flips' = flips + 1 /\ ReportedIsQuery = 0
               ELSE flips' = flips /\ ReportedIsQuery = arg_is_query']_vars

\* C14: when it is the connection's first message and the caller passed
\* is_query = 1 with the QR bit set, the message is treated as a response
\* (dns_message reports is_query 0), and the roles are swapped too when the
\* responder is not multicast; with a multicast responder the roles stay.
\* When it is not the first message, or is_query is 0, or QR is 0, neither
\* the roles nor the caller's is_query is changed.
C14_ResponseOnMismatchFlipIfUnicast ==
    [][(IsCall /\ Len(msg') >= HDR_LEN)
         => /\ log'[1].name = "dns_message"
            /\ ReportedIsQuery = (IF RoleMismatch THEN 0 ELSE arg_is_query')
            /\ flips' = (IF RoleMismatch /\ ~cfg.resp_multicast THEN flips + 1 ELSE flips)]_vars

\* A first message from the originator's side with QR set, to a multicast
\* responder: reported as a response, and the roles stay.
C14_Witness ==
    /\ Called /\ Len(forwarded) = 1 /\ cfg.resp_multicast
    /\ Len(msg) >= HDR_LEN /\ QROf(msg) = 1 /\ arg_is_query = 1
    /\ flips = 0
    /\ log[1].name = "dns_message" /\ log[1].arg[1] = 0
-----------------------------------------------------------------------------
(* Properties of the record parsers, under RecordSpec.                     *)

\* The call was made on a response with no question and one record, and
\* the record of the call: its type, its declared rdlength, and the
\* offset at which its payload starts, after the header, the root owner
\* name and the ten bytes of type, class, ttl and rdlength.
OneRecordCall == CalledWithHeader /\ HdrQd = 0 /\ HdrAn = 1 /\ Len(msg) >= HDR_LEN + 11
RecordType == msg[HDR_LEN + 2] * 256 + msg[HDR_LEN + 3]
RecordRdlength == msg[HDR_LEN + 10] * 256 + msg[HDR_LEN + 11]
RecordRdataStart == HDR_LEN + 11

\* ParseAnswer returned success for the record.
RecordParsed == OneRecordCall /\ ReturnIdx("ParseAnswer", 1) # {}

(* C17 *)
\* C17: whenever the record parser dispatched by ParseAnswer returns
\* success, for every record type and input, the cursor has advanced by
\* exactly rdlength from the end of the record's prelude, or the weird
\* DNS_RR_length_mismatch was emitted for the record.
C17_RdlengthConsumedOrMismatch ==
    RecordParsed =>
        \/ cursor.pos = RecordRdataStart + RecordRdlength
        \/ WeirdIdx("DNS_RR_length_mismatch") # {}

(* C18 *)
\* C18: with the responder's port 137 a record of type 33 is skipped: no
\* dns_SRV_reply is emitted, and the cursor is passed over the rdlength
\* bytes of the payload, so that the next record is parsed right after it.
C18_NbstatPayloadSkipped ==
    (OneRecordCall /\ RecordType = TYPE_SRV /\ cfg.resp_port = NETBIOS_PORT
       /\ RecordRdlength <= Len(msg) - RecordRdataStart)
    => /\ RecordParsed
       /\ EventIdx("dns_SRV_reply") = {}
       /\ cursor.pos = RecordRdataStart + RecordRdlength

(* C19 *)
\* C19: in a TXT or SPF record, whenever the length byte of a character
\* string exceeds the rdlength bytes that remain after it, the weird
\* DNS_TXT_char_str_past_rdlen is emitted and the record parse returns 0,
\* so that the message is abandoned, also when the length byte is the
\* last byte of the record's data.
C19_CharStringPastRdlenAborts ==
    (OneRecordCall /\ WeirdIdx("DNS_TXT_char_str_past_rdlen") # {})
    => /\ RecordType \in {TYPE_TXT, TYPE_SPF}
       /\ ReturnIdx("ParseAnswer", 0) # {}
       /\ ret = 0
-----------------------------------------------------------------------------
(* FieldSpec: one ExtractShort or ExtractLong call on a small buffer, with *)
(* the cursor anywhere in it.                                              *)

MaxFieldBuf == 5
FieldBytes == {0, 1, 255}
FieldBuffers == SeqsUpTo(FieldBytes, MaxFieldBuf)

\* The reader fn returned R for a cursor that was at start.
FieldCallEnd(R, fn, buf, start) ==
    /\ nm' = [fn |-> fn, start |-> start, val |-> R.val, long |-> R.long]
    /\ cursor' = [pos |-> R.pos, len |-> R.len, oob |-> R.oob, neg |-> R.neg]
    /\ msg' = buf
    /\ pc' = "done"
    /\ UNCHANGED <<arg_is_query, ret, log, first_message, flips, cfg, framer, pending,
                   forwarded, conn, queue, list>>

\* The cursor of a call: data = buf + start, len = the bytes from there to
\* the end of buf.
FieldCursor(buf, start) ==
    [NewParse(buf, Len(buf)) EXCEPT !.pos = start, !.len = Len(buf) - start]

\* ExtractShort(data, len)
ExtractShortCall(buf, start) ==
    FieldCallEnd(ExtractShort(FieldCursor(buf, start)), "ExtractShort", buf, start)

\* ExtractLong(data, len)
ExtractLongCall(buf, start) ==
    FieldCallEnd(ExtractLong(FieldCursor(buf, start)), "ExtractLong", buf, start)

FieldNext ==
    /\ pc = "idle"
    /\ \E buf \in FieldBuffers : \E start \in 0..Len(buf) :
          \/ ExtractShortCall(buf, start)
          \/ ExtractLongCall(buf, start)

FieldSpec == NameInit /\ [][FieldNext]_vars

\* The reader's call has returned; the bytes that were available to it,
\* and the big-endian value of the two bytes at offset i.
FieldCalled(fn) == pc = "done" /\ nm # <<>> /\ nm.fn = fn
Available == Len(msg) - nm.start
BigEndian16(i) == msg[i + 1] * 256 + msg[i + 2]

(* C20 *)
\* C20: ExtractShort with 2 bytes or more left returns their big-endian
\* value and advances the cursor by 2, and ExtractLong with 4 or more
\* returns the big-endian value of the four and advances by 4; with fewer
\* bytes left, each returns 0 and advances the cursor by the bytes that
\* were available.
C20_ShortInputAdvancesByAvailable ==
    /\ FieldCalled("ExtractShort") =>
          IF Available >= 2
          THEN nm.val = BigEndian16(nm.start) /\ cursor.pos = nm.start + 2
               /\ cursor.len = Available - 2
          ELSE nm.val = 0 /\ cursor.pos = nm.start + Available /\ cursor.len = 0
    /\ FieldCalled("ExtractLong") =>
          IF Available >= 4
          THEN nm.long = <<BigEndian16(nm.start), BigEndian16(nm.start + 2)>>
               /\ cursor.pos = nm.start + 4 /\ cursor.len = Available - 4
          ELSE nm.long = <<0, 0>> /\ cursor.pos = nm.start + Available /\ cursor.len = 0
-----------------------------------------------------------------------------
(* Further properties of ExtractName, under NameSpec.                      *)

\* The offsets at which the call read the length byte of a label that is
\* no pointer, is longer than 63 bytes and fits in the input left after
\* its length byte, in a name decoded without a compression pointer.
LongLabels ==
    { i \in 1..Len(nm.decoded) :
        /\ nm.ptrs = <<>>
        /\ msg[nm.decoded[i] + 1] > 63 /\ msg[nm.decoded[i] + 1] < 192
        /\ msg[nm.decoded[i] + 1] <= Len(msg) - nm.decoded[i] - 1 }

\* The bytes the call wrote to the name before the label read at offset d:
\* every label before it with its dot.
WrittenBefore(d) == d - nm.start

(* C21 *)
\* C21: a label that is no pointer, whose length byte is over 63 and that
\* fits in the remaining input is rejected: DNS_label_too_long is emitted,
\* nothing of it is copied and the name stops behind its length byte;
\* except when the responder's port is 137, where it is copied as an
\* ordinary label is, lowercased and followed by the rest of the name,
\* when the name buffer has room for it, and refused with
\* DNS_label_len_gt_name_len, as an ordinary label is, when it has not.
C21_LongLabelRejectedUnlessNetbios ==
    NameCalled =>
        \A i \in LongLabels :
            LET d == nm.decoded[i]
                L == msg[d + 1]
            IN  IF cfg.resp_port # NETBIOS_PORT
                THEN /\ WeirdIdx("DNS_label_too_long") # {}
                     /\ i = Len(nm.decoded)
                     /\ cursor.pos = d + 1
                     /\ Len(nm.name) = Max(WrittenBefore(d) - 1, 0)
                ELSE IF L >= NAME_LEN - WrittenBefore(d)
                THEN /\ WeirdIdx("DNS_label_too_long") = {}
                     /\ WeirdIdx("DNS_label_len_gt_name_len") # {}
                     /\ i = Len(nm.decoded)
                     /\ cursor.pos = d + 1
                ELSE /\ WeirdIdx("DNS_label_too_long") = {}
                     /\ cursor.pos >= d + 1 + L
                     /\ Len(nm.name) >= WrittenBefore(d) + L
                     /\ SubSeq(nm.name, WrittenBefore(d) + 1, WrittenBefore(d) + L)
                          = LowerAll(SubSeq(msg, d + 2, d + 1 + L))

\* A label of 64 bytes after the label "A", rejected on port 53.
C21_Witness ==
    /\ NameCalled /\ cfg.resp_port # NETBIOS_PORT /\ nm.start = 0
    /\ LongLabels # {}
    /\ nm.name = <<97>>
    /\ msg[3] = 64
    /\ WeirdIdx("DNS_label_too_long") # {}

RECURSIVE JoinLabels(_)
\* The labels, each followed by a dot.
JoinLabels(ls) == IF ls = <<>> THEN <<>> ELSE Head(ls) \o <<46>> \o JoinLabels(Tail(ls))

\* s without its last byte, if it has one.
DropLast(s) == IF s = <<>> THEN s ELSE SubSeq(s, 1, Len(s) - 1)

\* The name for the labels the call copied: the labels joined by dots,
\* the one trailing dot removed, in lower case.
NormalizedName == LowerAll(DropLast(JoinLabels(nm.labels)))

\* The buffer with the case of every ASCII letter changed, and ExtractName
\* on it for the same cursor.
SwapCase(b) == IF b >= 65 /\ b <= 90 THEN b + 32 ELSE IF b >= 97 /\ b <= 122 THEN b - 32 ELSE b
CaseSwapped == [i \in 1..Len(msg) |-> SwapCase(msg[i])]
DecodedFrom(buf) ==
    NameCall([NewParse(buf, Len(buf)) EXCEPT !.pos = nm.start, !.len = Len(buf) - nm.start],
             NAME_LEN)

\* No letter of the buffer was read as a length byte or as a pointer's
\* second byte: the letters the call read are bytes of labels.
LettersAreLabelBytes ==
    /\ \A i \in 1..Len(nm.decoded) : SwapCase(msg[nm.decoded[i] + 1]) = msg[nm.decoded[i] + 1]
    /\ \A i \in 1..Len(nm.ptrs) : SwapCase(msg[nm.ptrs[i].at + 2]) = msg[nm.ptrs[i].at + 2]

\* Decoding is a function of the bytes, two names that differ only in the
\* case of label bytes decode to the same string, and the string has no
\* uppercase ASCII letter.
NormalizedCase ==
    /\ DecodedFrom(msg).name = nm.name
    /\ LettersAreLabelBytes => DecodedFrom(CaseSwapped).name = nm.name
    /\ \A i \in 1..Len(nm.name) : ~(nm.name[i] >= 65 /\ nm.name[i] <= 90)

(* C22 *)
\* C22 as stated: ExtractName normalizes deterministically: the same bytes
\* decode to the same string, names that differ only in the case of label
\* bytes decode to the same string, and the string has no uppercase
\* letter, is the labels joined by '.', and has exactly one trailing '.'
\* removed, whether the name is decoded directly or through pointers.
C22_NormalizedName ==
    NameCalled => (NormalizedCase /\ nm.name = NormalizedName)

\* The call followed a compression pointer; the pointer of the caller's
\* own name, how many labels the caller had copied before it, and the
\* bytes, dots included, that they took in the name buffer.
PointerFollowed == NameCalled /\ nm.ptrs # <<>> /\ ~nm.stuck
OuterPointer == nm.ptrs[1]
LabelsBeforePointer ==
    (CHOOSE i \in 1..Len(nm.decoded) :
        /\ nm.decoded[i] = OuterPointer.at
        /\ \A j \in 1..(i - 1) : nm.decoded[j] # OuterPointer.at) - 1
WrittenBeforePointer == JoinLabels(SubSeq(nm.labels, 1, LabelsBeforePointer))

\* The name the nested ExtractName returns for the pointer: decoded from
\* the pointer's target, in the bytes before the pointer, into the room
\* the caller's labels left.
NestedName ==
    ExtractName([NewParse(msg, Len(msg)) EXCEPT
                     !.pos = OuterPointer.to,
                     !.len = OuterPointer.at - OuterPointer.to,
                     !.name_len = NAME_LEN - Len(WrittenBeforePointer)],
                1).name

(* C23 *)
\* C23: when ExtractLabel follows a compression pointer, the caller's
\* cursor ends exactly 2 bytes past the start of the pointer, data
\* advanced and len reduced by 2, whatever the nested decode reads; the
\* nested name is appended to the name after the labels already written;
\* and the name stops there: no label behind the pointer is read.
C23_PointerEndsName ==
    PointerFollowed =>
        /\ cursor.pos = OuterPointer.at + 2
        /\ cursor.len = Len(msg) - (OuterPointer.at + 2)
        /\ Len(WrittenBeforePointer) = OuterPointer.at - nm.start
        /\ nm.name = LowerAll(StripDot(WrittenBeforePointer \o NestedName))
        /\ \A i \in 1..Len(nm.decoded) : nm.decoded[i] <= OuterPointer.at

\* A label of one byte, then a pointer to it, then a label that is not
\* read.
C23_Witness ==
    /\ PointerFollowed /\ nm.start = 0
    /\ msg = <<1, 2, 192, 0, 1, 2>>
    /\ nm.name = <<2, 46, 2>>
    /\ cursor.pos = 4 /\ cursor.len = 2
-----------------------------------------------------------------------------
(* CloseSpec: DNS over TCP on a connection that closes.  TCP delivers the  *)
(* streams in segments, and calls ConnectionClosed when an endpoint        *)
(* closes; data of the other endpoint may follow.                          *)

\* Contents_DNS::Flush that hands over the whole buffer, filled or not.
Flush_WholeBuffer(F) ==
    Delivered([F EXCEPT !.msg_size = 0], <<SubSeq(F.msg_buf, 1, F.buf_len)>>)

\* Contents_DNS::Flush on the framer F (lines 1643-1651): the framer it
\* leaves and the partial message it hands to interp->ParseMessage.
Flush(F) ==
    IF F.buf_n > 0
    THEN Delivered([F EXCEPT !.msg_size = 0, !.overread = @ \/ F.buf_n > F.buf_len],
                   <<SubSeq(F.msg_buf, 1, F.buf_n)>>)
    ELSE Delivered(F, <<>>)

\* interp->ParseMessage(msg_buf, buf_n, 2) of Flush returned R.
FlushParsed(R, data, I) == Interp(R.first_message, R.flips, R.ret, data, I.log \o R.P.log)

\* The interpreter after Flush handed it the messages of out, one or none.
FlushParse(I, out) ==
    IF out = <<>> THEN I
    ELSE FlushParsed(ParseMessage(out[1], Len(out[1]), 2, I.first_message, I.flips),
                     out[1], I)

MaxCloses == 2
MaxCloseStream == 3

\* A query's length and header, the frame still open.
OpenQuery == <<0, 19>> \o Header(0, 1, 0, 0, 0)

\* The streams of the two directions: short ones against a responder's
\* open frame or silence, and the open query alone.
CloseStreams ==
    ((SeqsUpTo(StreamBytes, MaxCloseStream) \cup {TwoFrames}) \X {<<>>, <<0, 2, 1>>})
        \cup {<<OpenQuery, <<>>>>}

\* conn.flushed[orig]: how many segments the framer of direction orig had
\* taken when Flush last handed a partial message over, -1 if it never did.
CloseInit ==
    /\ pc = "idle"
    /\ msg = <<>>
    /\ arg_is_query = 0
    /\ ret = -1
    /\ log = <<>>
    /\ cursor = NoCursor
    /\ first_message = TRUE
    /\ flips = 0
    /\ cfg \in FramerConfigs
    /\ framer = [o \in BOOLEAN |-> NoFramer]
    /\ \E s \in CloseStreams :
          pending = [o \in BOOLEAN |-> IF o THEN Stream(s[1]) ELSE Stream(s[2])]
    /\ forwarded = <<>>
    /\ nm = <<>>
    /\ conn = [closes |-> 0, flushed |-> [o \in BOOLEAN |-> -1]]
    /\ queue = NoQueue
    /\ list = NoList

\* The Flush calls of ConnectionClosed returned Do and Dr and left the
\* interpreter as I.  forwarded takes <<bytes, orig, 2>> for a Flush.
ConnectionClosedEnd(Do, Dr, I) ==
    /\ framer' = [o \in BOOLEAN |-> IF o THEN Do.F ELSE Dr.F]
    /\ forwarded' = forwarded \o [i \in 1..Len(Do.out) |-> <<Do.out[i], TRUE, 2>>]
                              \o [i \in 1..Len(Dr.out) |-> <<Dr.out[i], FALSE, 2>>]
    /\ conn' = [conn EXCEPT !.closes = @ + 1,
                            !.flushed = [o \in BOOLEAN |->
                                IF (IF o THEN Do.out ELSE Dr.out) # <<>>
                                THEN pending[o].calls ELSE @[o]]]
    /\ first_message' = I.first_message
    /\ flips' = I.flips
    /\ ret' = I.ret
    /\ msg' = I.msg
    /\ log' = I.log
    /\ arg_is_query' = IF Do.out \o Dr.out # <<>> THEN 2 ELSE arg_is_query
    /\ UNCHANGED <<pc, cursor, cfg, pending, nm, queue, list>>

\* DNS_Analyzer::ConnectionClosed: contents_dns_orig->Flush(), then
\* contents_dns_resp->Flush().
ConnectionClosed(Do, Dr) ==
    ConnectionClosedEnd(Do, Dr,
                        FlushParse(FlushParse(Interp(first_message, flips, -1, <<>>, <<>>),
                                              Do.out),
                                   Dr.out))

ConnectionClosedCall ==
    /\ conn.closes < MaxCloses
    /\ ConnectionClosed(Flush(framer[TRUE]), Flush(framer[FALSE]))

CloseNext ==
    \/ \E orig \in BOOLEAN :
          \E k \in 1..(Len(pending[orig].stream) - pending[orig].at) :
              DeliverStreamCall(orig, k)
    \/ ConnectionClosedCall

CloseSpec == CloseInit /\ [][CloseNext]_vars

\* A step that is a ConnectionClosed call, and one that is a DeliverStream
\* call on direction orig.
IsClose == conn'.closes = conn.closes + 1
IsDelivery(orig) == pending'[orig].calls = pending[orig].calls + 1

\* What the step adds to forwarded.
NewForwarded == SubSeq(forwarded', Len(forwarded) + 1, Len(forwarded'))

ByFlush(e) == Len(e) = 3
\* The messages the Flush of direction orig hands over in the step.
FlushedIn(orig) ==
    IF orig THEN SelectSeq(SelectSeq(NewForwarded, ByFlush), FromOrig)
    ELSE SelectSeq(SelectSeq(NewForwarded, ByFlush), FromResp)

\* The messages the step forwards.
ForwardedIn == [i \in 1..Len(NewForwarded) |-> NewForwarded[i][1]]

\* The segment the step's DeliverStream call takes.
Segment(orig) ==
    SubSeq(pending[orig].stream, pending[orig].at + 1, pending'[orig].at)

\* Flush handed the framer's partial message over and the framer took no
\* segment since.
JustFlushed(orig) == conn.flushed[orig] = pending[orig].calls

(* C24 *)
\* C24 as stated: once Flush has handed a framer's partial message to
\* ParseMessage, a second Flush with no DeliverStream call in between hands
\* nothing over, and the next DeliverStream call forwards nothing for the
\* flushed bytes: it forwards what a framer at a frame boundary forwards
\* for the segment.
C24_FlushedOnce ==
    [][\A orig \in BOOLEAN :
          /\ (IsClose /\ JustFlushed(orig)) => FlushedIn(orig) = <<>>
          /\ (IsDelivery(orig) /\ JustFlushed(orig))
             => ForwardedIn = DeliverStream(NoFramer, Segment(orig), <<>>).out]_vars

RECURSIVE FramedLen(_)
\* The bytes of the frames of the messages ms, each with its two length bytes.
FramedLen(ms) == IF ms = <<>> THEN 0 ELSE 2 + Len(Head(ms)) + FramedLen(Tail(ms))

ForwardedBytes(orig) == FramedLen(ForwardedOf(orig))

\* What the Flush of a framer F of direction orig is to hand over.
FlushExpected(F, orig) ==
    IF F.buf_n > 0 THEN <<<<SubSeq(F.msg_buf, 1, F.buf_n), orig, 2>>>> ELSE <<>>

\* The step's Flush on the framer F of direction orig, whose stream is S.
FlushChecked(F, S, orig) ==
    /\ FlushedIn(orig) = FlushExpected(F, orig)
    /\ F.buf_n > 0 =>
          /\ F.buf_n <= S.at
          /\ SubSeq(F.msg_buf, 1, F.buf_n) = SubSeq(S.stream, S.at - F.buf_n + 1, S.at)
          /\ arg_is_query' = 2
          /\ conn.closes = 0 => S.at - F.buf_n = ForwardedBytes(orig) + 2
    /\ F.state \in {"DNS_LEN_HI", "DNS_LEN_LO"} => FlushedIn(orig) = <<>>
    /\ (conn.closes = 0 /\ IsFrames(SubSeq(S.stream, 1, S.at))) => FlushedIn(orig) = <<>>

(* C25 *)
\* C25: a Flush hands a message to ParseMessage exactly when its framer
\* has buf_n > 0; the message is the buf_n bytes of the buffer, which are
\* the last buf_n bytes the stream delivered, and is_query is 2.  In state
\* DNS_LEN_HI or DNS_LEN_LO, and when what was delivered is a sequence of
\* whole frames, it hands nothing over.  On the first close the flushed
\* bytes come after the frames of the messages already forwarded and the
\* two length bytes of their own frame.
C25_FlushIffBuffered ==
    [][IsClose => \A orig \in BOOLEAN : FlushChecked(framer[orig], pending[orig], orig)]_vars

\* The twelve buffered bytes of an open frame, flushed: ParseMessage took
\* them with is_query 2 and reported dns_message.
C25_Witness ==
    /\ conn.closes = 1
    /\ forwarded = <<<<Header(0, 1, 0, 0, 0), TRUE, 2>>>>
    /\ msg = Header(0, 1, 0, 0, 0)
    /\ arg_is_query = 2
    /\ EventIdx("dns_message") # {}

\* The assignments to state the claim allows.
FramerTransitions ==
    {<<"DNS_LEN_HI", "DNS_LEN_LO">>, <<"DNS_LEN_LO", "DNS_MESSAGE_BUFFER">>,
     <<"DNS_MESSAGE_BUFFER", "DNS_LEN_HI">>}

(* C26 *)
\* C26: over DeliverStream and Flush calls in any order, a framer's state
\* is one of DNS_LEN_HI, DNS_LEN_LO and DNS_MESSAGE_BUFFER, every
\* assignment to it goes from DNS_LEN_HI to DNS_LEN_LO, from DNS_LEN_LO to
\* DNS_MESSAGE_BUFFER or from DNS_MESSAGE_BUFFER to DNS_LEN_HI, and
\* DeliverStream never reports its state inconsistency.
C26_FramerStates ==
    \A orig \in BOOLEAN :
        /\ framer[orig].state \in {"DNS_LEN_HI", "DNS_LEN_LO", "DNS_MESSAGE_BUFFER"}
        /\ ~framer[orig].internal
        /\ \A i \in 1..Len(framer[orig].path) : framer[orig].path[i] \in FramerTransitions

\* A DeliverStream call on a framer that Flush had just emptied: it left
\* DNS_MESSAGE_BUFFER and read a length byte.
C26_Witness ==
    /\ conn.flushed[TRUE] = pending[TRUE].calls - 1
    /\ framer[TRUE].path = <<<<"DNS_MESSAGE_BUFFER", "DNS_LEN_HI">>,
                             <<"DNS_LEN_HI", "DNS_LEN_LO">>>>

\* The Contents_DNS fields of a framer.
Framing(F) == [state |-> F.state, msg_size |-> F.msg_size, buf_n |-> F.buf_n,
               buf_len |-> F.buf_len, msg_buf |-> F.msg_buf]

\* Direction orig is where a framer that saw only this direction's bytes,
\* and left D, is.
FramedAlone(orig, D) ==
    /\ ForwardedOf(orig) = D.out
    /\ Framing(framer[orig]) = Framing(D.F)

\* The bytes of direction orig delivered so far.
DeliveredBytes(orig) == SubSeq(pending[orig].stream, 1, pending[orig].at)

(* C27 *)
\* C27: however the DeliverStream calls of the two directions interleave,
\* the messages forwarded for a direction and the state of its framer are
\* those of a framer that takes the bytes delivered in that direction and
\* nothing else: they depend on that direction's bytes alone.
C27_DirectionsIndependent ==
    \A orig \in BOOLEAN :
        pending[orig].at > 0
        => FramedAlone(orig, DeliverStream(NoFramer, DeliveredBytes(orig), <<>>))

\* The responder's frame forwarded between the originator's two, the
\* originator's second frame open while the responder's was taken.
C27_Witness ==
    /\ pending[TRUE].stream = TwoFrames
    /\ forwarded = <<<<<<1>>, TRUE>>, <<<<2>>, FALSE>>, <<<<1, 2>>, TRUE>>>>
    /\ pending[FALSE].calls = 3
    /\ pending[TRUE].calls = 4

\* The positions of the non_dns_request events of a log.
NonDnsIn(lg) ==
    { i \in 1..Len(lg) : lg[i].k = "event" /\ lg[i].name = "non_dns_request" }

\* The is_query that ParseMessage reports in dns_message when its caller
\* passed is_query for the message data.
ReportedFor(data, is_query) ==
    IF first_message /\ is_query = 1 /\ QROf(data) = 1 THEN 0 ELSE is_query

\* The DeliverPacket call of this step, on data from direction orig.
PacketChecked(data, orig) ==
    /\ Len(data) >= HDR_LEN
       => /\ log'[1].name = "dns_message"
          /\ log'[1].arg[1] = ReportedFor(data, IF orig THEN 1 ELSE 0)
    /\ IF orig /\ ret' = 0 /\ Registered("non_dns_request")
       THEN /\ NonDnsIn(log') = {Len(log')}
            /\ log'[Len(log')].arg = data
       ELSE NonDnsIn(log') = {}

(* C28 *)
\* C28: DeliverPacket hands the originator's data to ParseMessage with
\* is_query = 1 and the responder's with is_query = 0, as dns_message then
\* reports it, and it emits non_dns_request, once, after all that
\* ParseMessage emitted and with the packet's bytes, exactly when the data
\* is the originator's, ParseMessage returned 0 and the handler is
\* registered; never for the responder's data.
C28_DirectionAndNonDns ==
    [][IsCall => PacketChecked(forwarded'[Len(forwarded')][1],
                               forwarded'[Len(forwarded')][2])]_vars

\* The originator's response cut inside its question: ParseMessage
\* reported it and returned 0, and non_dns_request carries the packet.
C28_Witness ==
    /\ Called /\ ret = 0
    /\ forwarded[Len(forwarded)] = <<Message(1, <<Q_Cut>>, <<>>, <<>>, <<>>), TRUE>>
    /\ EventIdx("dns_message") # {}
    /\ NonDnsIn(log) = {Len(log)}
    /\ log[Len(log)].arg = msg
-----------------------------------------------------------------------------
(* TimerSpec: the expire timer of a session.  conn holds the transport,    *)
(* the times of the pending DNS_Analyzer::ExpireTimer timers, the network  *)
(* time, Conn()->LastTime(), whether sessions->Remove took the session     *)
(* and whether the monitor is terminating.  Times are whole seconds.       *)
(* With them goes since, the ExpireTimer calls since the last packet.      *)

MaxTime == 9
SessionTimeouts == {2, 3}

TimerConfigs ==
    [dns_max_queries : {0},
     dns_skip_all_auth : {FALSE}, dns_skip_all_addl : {FALSE},
     in_dns_skip_auth : {FALSE}, in_dns_skip_addl : {FALSE},
     resp_port : {53},
     resp_multicast : {FALSE},
     handlers : {AllHandlers \cup {"connection_timeout"}},
     dns_session_timeout : SessionTimeouts]

\* DNS_Analyzer::DNS_Analyzer at network_time 0: a TCP connection gets its
\* two Contents_DNS, any other the expire timer.
NewConn(transport) ==
    [closes |-> 0, transport |-> transport,
     timers |-> IF transport = "TRANSPORT_TCP" THEN <<>>
                ELSE <<0 + cfg.dns_session_timeout>>,
     now |-> 0, last_time |-> 0, removed |-> FALSE, terminating |-> FALSE,
     since |-> 0]

TimerInit ==
    /\ pc = "idle"
    /\ msg = <<>>
    /\ arg_is_query = 0
    /\ ret = -1
    /\ log = <<>>
    /\ cursor = NoCursor
    /\ first_message = TRUE
    /\ flips = 0
    /\ cfg \in TimerConfigs
    /\ framer = [o \in BOOLEAN |-> NoFramer]
    /\ pending = [o \in BOOLEAN |-> NoStream]
    /\ forwarded = <<>>
    /\ nm = <<>>
    /\ conn \in {NewConn("TRANSPORT_UDP"), NewConn("TRANSPORT_TCP")}
    /\ queue = NoQueue
    /\ list = NoList

\* The pending timers without the i-th.
Without(timers, i) == SubSeq(timers, 1, i - 1) \o SubSeq(timers, i + 1, Len(timers))

\* ExpireTimer that allows a session two seconds more than its timeout.
Expired_TwoLate(C, t) == t - C.last_time >= cfg.dns_session_timeout + 2 \/ C.terminating

\* t - Conn()->LastTime() >= dns_session_timeout - 1.0 || terminating
Expired(C, t) == t - C.last_time >= cfg.dns_session_timeout - 1 \/ C.terminating

\* ExpireTimer that times the session out and rearms all the same.
ExpireTimer_Rearmed(C, t) ==
    IF Expired(C, t)
    THEN [C EXCEPT !.removed = TRUE, !.timers = Append(@, t + cfg.dns_session_timeout),
                   !.since = @ + 1]
    ELSE [C EXCEPT !.timers = Append(@, t + cfg.dns_session_timeout), !.since = @ + 1]

\* DNS_Analyzer::ExpireTimer(t) on the connection C: sessions->Remove, or
\* ADD_ANALYZER_TIMER at t + dns_session_timeout.
ExpireTimer(C, t) ==
    IF Expired(C, t)
    THEN [C EXCEPT !.removed = TRUE, !.since = @ + 1]
    ELSE [C EXCEPT !.timers = Append(@, t + cfg.dns_session_timeout), !.since = @ + 1]

\* Event(connection_timeout) of ExpireTimer(t)
ExpireTimerEvent(C, t) ==
    IF Expired(C, t) THEN <<Entry("event", "connection_timeout", 0, <<>>)>> ELSE <<>>

\* The timer manager dispatches the i-th pending timer at network time t:
\* when it is due, or before that when the monitor terminates and expires
\* its timers.
ExpireTimerCall(i, t) ==
    /\ ~conn.removed
    /\ conn.timers[i] <= t \/ conn.terminating
    /\ conn' = ExpireTimer([conn EXCEPT !.timers = Without(@, i), !.now = t], t)
    /\ log' = log \o ExpireTimerEvent(conn, t)
    /\ UNCHANGED <<pc, msg, arg_is_query, ret, cursor, first_message, flips, cfg, framer,
                   pending, forwarded, nm, queue, list>>

\* A packet of the session at network time t, before any pending timer is
\* due: the connection records it as its last activity.
PacketAt(t) ==
    /\ ~conn.removed /\ ~conn.terminating
    /\ \A i \in 1..Len(conn.timers) : t < conn.timers[i]
    /\ conn' = [conn EXCEPT !.now = t, !.last_time = t, !.since = 0]
    /\ UNCHANGED <<pc, msg, arg_is_query, ret, log, cursor, first_message, flips, cfg,
                   framer, pending, forwarded, nm, queue, list>>

\* The monitor starts terminating.
Terminate ==
    /\ ~conn.removed /\ ~conn.terminating
    /\ conn' = [conn EXCEPT !.terminating = TRUE]
    /\ UNCHANGED <<pc, msg, arg_is_query, ret, log, cursor, first_message, flips, cfg,
                   framer, pending, forwarded, nm, queue, list>>

\* The times at which the i-th pending timer may be dispatched: any time
\* from now on up to MaxTime, and the time it is due.
DispatchTimes(i) == (conn.now..MaxTime) \cup {conn.timers[i]}

\* Some pending timer is dispatched.
TimerFires == \E i \in 1..Len(conn.timers) : \E t \in DispatchTimes(i) : ExpireTimerCall(i, t)

TimerNext ==
    \/ TimerFires
    \/ \E t \in conn.now..MaxTime : PacketAt(t)
    \/ Terminate

TimerSpec == TimerInit /\ [][TimerNext]_vars

\* The connection_timeout events so far.
Timeouts == { i \in 1..Len(log) : log[i].k = "event" /\ log[i].name = "connection_timeout" }

\* A step in which ExpireTimer fires.
IsFiring == Len(conn.timers) > 0 /\ (conn'.removed \/ conn'.timers # conn.timers)

\* What a firing at time t, for the only pending timer, leaves.
FiringChecked(t) ==
    IF t - conn.last_time >= cfg.dns_session_timeout - 1 \/ conn.terminating
    THEN /\ log' = Append(log, Entry("event", "connection_timeout", 0, <<>>))
         /\ conn'.removed
         /\ conn'.timers = <<>>
    ELSE /\ log' = log
         /\ ~conn'.removed
         /\ conn'.timers = <<t + cfg.dns_session_timeout>>

\* At most one timer is pending, connection_timeout was emitted at most
\* once and only for a session then removed, and a TCP session has no timer.
TimerInv ==
    /\ Len(conn.timers) <= 1
    /\ Cardinality(Timeouts) <= 1
    /\ Timeouts # {} <=> conn.removed
    /\ conn.transport = "TRANSPORT_TCP" => (conn.timers = <<>> /\ Timeouts = {})

(* C29 *)
\* C29: a firing of ExpireTimer at time t, for a UDP session, emits
\* connection_timeout, removes the session and schedules no timer when
\* t - LastTime >= dns_session_timeout - 1 or the monitor is terminating;
\* otherwise it emits nothing and schedules one timer, at
\* t + dns_session_timeout.  At most one expire timer is pending at any
\* time, connection_timeout is emitted at most once for a session, and a
\* TCP session never has the timer.
C29_ExpireOrRearm ==
    /\ []TimerInv
    /\ [][IsFiring => (conn.transport = "TRANSPORT_UDP" /\ FiringChecked(conn'.now))]_vars

\* A session kept alive by a packet through its first timer, and timed out
\* by the second.
C29_Witness ==
    /\ conn.transport = "TRANSPORT_UDP"
    /\ cfg.dns_session_timeout = 3
    /\ conn.last_time = 2
    /\ conn.now = 6
    /\ conn.removed
    /\ conn.timers = <<>>
    /\ Cardinality(Timeouts) = 1
-----------------------------------------------------------------------------
(* The early end of ParseMessage, under Spec.                              *)

\* The record counts of the header of the message m.
HeaderCounts(m) ==
    [ancount |-> m[7] * 256 + m[8], nscount |-> m[9] * 256 + m[10],
     arcount |-> m[11] * 256 + m[12]]

\* skip_auth && skip_addl, for the message m
BothSkipped(m) == skip_auth(HeaderCounts(m)) /\ skip_addl(HeaderCounts(m))

\* The positions of ProtocolConfirmation in the log lg: the answer section
\* was parsed.
ConfirmedAt(lg) ==
    { i \in 1..Len(lg) : lg[i].k = "signal" /\ lg[i].name = "ProtocolConfirmation" }

\* After ProtocolConfirmation the log lg has dns_end, once, and no other
\* event, weird or signal.
OnlyEndAfter(lg, c) ==
    /\ Cardinality({ i \in (c + 1)..Len(lg) : IsEvent(lg[i], "dns_end") }) = 1
    /\ \A i \in (c + 1)..Len(lg) : IsOutput(lg[i]) => IsEvent(lg[i], "dns_end")

\* The call R, on the message cut where this step's call left its cursor,
\* emitted and returned what this step's call did, and stopped there too.
SameWhenCut(R) ==
    /\ R.P.log = log'
    /\ R.ret = ret'
    /\ R.P.pos = cursor'.pos

\* This step's call ended right after the answer section.
EndedAfterAnswers ==
    /\ ret' = 1
    /\ \A c \in ConfirmedAt(log') : OnlyEndAfter(log', c)
    /\ \A i \in 1..Len(log') :
          log'[i].k = "event" /\ log'[i].name # "dns_end"
          => log'[i].at \notin {DNS_AUTHORITY, DNS_ADDITIONAL}
    /\ SameWhenCut(ParseMessage(SubSeq(msg', 1, cursor'.pos), cursor'.pos, arg_is_query',
                                first_message, flips))

(* C30 *)
\* C30: a ParseMessage call that parsed its answer section and found both
\* skip_auth and skip_addl true emits dns_end and returns 1 with nothing
\* else after ProtocolConfirmation, emits no event for an authority or
\* additional record, and does the same, stopping at the same offset, on
\* the message without the bytes that follow the answer section: it reads
\* none of them.
C30_EndsAfterAnswers ==
    [][(IsCall /\ Len(msg') >= HDR_LEN /\ ConfirmedAt(log') # {} /\ BothSkipped(msg'))
         => EndedAfterAnswers]_vars

\* A response whose authority record is malformed and whose additional
\* section has a record, both skipped by policy: the call returned 1 with
\* its cursor at the end of the answer section.
C30_Witness ==
    /\ Called /\ ret = 1
    /\ msg = Message(1, <<Q_A>>, <<R_A>>, <<R_BadA>>, <<R_A>>)
    /\ cfg.in_dns_skip_auth /\ cfg.in_dns_skip_addl
    /\ cursor.pos = Len(Message(1, <<Q_A>>, <<R_A>>, <<>>, <<>>))
    /\ cursor.len = Len(R_BadA) + Len(R_A)
    /\ EventIdx("dns_end") # {}
-----------------------------------------------------------------------------
(* BaseQueue of Queue.h: a ring of max_entries + 1 cells.  A queue Q is    *)
(* [entries, chunk_size, max_entries, num_entries, head, tail]; entries is *)
(* the array, cell i of the code at index i + 1, "?" in a cell never       *)
(* written.  With it go deque, the elements as a sequence from front to    *)
(* back, kept by the pushes and pops as a double-ended sequence keeps      *)
(* them, and val, what the last call returned.                             *)

DEFAULT_CHUNK_SIZE == 10

\* entries[i]
Cell(Q, i) == Q.entries[i + 1]

\* entries[i] = a;
SetCell(Q, i, a) == [Q EXCEPT !.entries[i + 1] = a]

\* BaseQueue::BaseQueue(size)
NewQueue(size) ==
    [entries |-> IF size < 0 THEN <<"?">> ELSE [i \in 1..(DEFAULT_CHUNK_SIZE + 1) |-> "?"],
     chunk_size |-> DEFAULT_CHUNK_SIZE,
     max_entries |-> IF size < 0 THEN 0 ELSE DEFAULT_CHUNK_SIZE,
     num_entries |-> 0, head |-> 0, tail |-> 0,
     deque |-> <<>>, val |-> 0]

\* The two memcpy calls of resize, for the cell i of new_entries: the
\* num_entries cells from head when head <= tail, else the
\* num_entries - tail cells from head and then the tail cells from 0.
Copied(Q, i) ==
    IF Q.head <= Q.tail
    THEN (IF i < Q.num_entries THEN Cell(Q, Q.head + i) ELSE "?")
    ELSE IF i < Q.num_entries - Q.tail THEN Cell(Q, Q.head + i)
    ELSE IF i < Q.num_entries THEN Cell(Q, i - (Q.num_entries - Q.tail))
    ELSE "?"

\* resize that keeps head and tail where they were.
QueueResizeTo_RingKept(Q, new_size) ==
    IF new_size # Q.max_entries
    THEN [Q EXCEPT !.entries = [i \in 1..(new_size + 1) |-> Copied(Q, i - 1)],
                   !.max_entries = new_size,
                   !.val = new_size]
    ELSE [Q EXCEPT !.val = Q.max_entries]

\* resize from its test of new_size != max_entries on (lines 35-66).
QueueResizeTo(Q, new_size) ==
    IF new_size # Q.max_entries
    THEN [Q EXCEPT !.entries = [i \in 1..(new_size + 1) |-> Copied(Q, i - 1)],
                   !.max_entries = new_size,
                   !.head = 0,
                   !.tail = Q.num_entries,
                   !.val = new_size]
    ELSE [Q EXCEPT !.val = Q.max_entries]

\* BaseQueue::resize(new_size)
QueueResize(Q, new_size) ==
    QueueResizeTo(Q, IF new_size < Q.num_entries THEN Q.num_entries ELSE new_size)

\* The resize of a push on a full queue (lines 104-108, 122-126).
MakeRoom(Q) ==
    IF Q.num_entries = Q.max_entries
    THEN [QueueResize(Q, Q.max_entries + Q.chunk_size) EXCEPT !.chunk_size = @ * 2]
    ELSE Q

\* push_front after it made room (lines 110-117).
PushFrontStore(Q, a) ==
    IF Q.head # 0
    THEN SetCell([Q EXCEPT !.num_entries = @ + 1, !.head = @ - 1], Q.head - 1, a)
    ELSE SetCell([Q EXCEPT !.num_entries = @ + 1, !.head = Q.max_entries], Q.max_entries, a)

\* BaseQueue::push_front(a)
push_front(Q, a) ==
    [PushFrontStore(MakeRoom(Q), a) EXCEPT !.deque = <<a>> \o @, !.val = 0]

\* push_back after it made room (lines 128-135).
PushBackStore(Q, a) ==
    IF Q.tail < Q.max_entries
    THEN SetCell([Q EXCEPT !.num_entries = @ + 1, !.tail = @ + 1], Q.tail, a)
    ELSE SetCell([Q EXCEPT !.num_entries = @ + 1, !.tail = 0], Q.tail, a)

\* BaseQueue::push_back(a)
push_back(Q, a) ==
    [PushBackStore(MakeRoom(Q), a) EXCEPT !.deque = Append(@, a), !.val = 0]

\* BaseQueue::pop_front()
pop_front(Q) ==
    IF Q.num_entries = 0 THEN [Q EXCEPT !.val = 0]
    ELSE IF Q.head < Q.max_entries
    THEN [Q EXCEPT !.num_entries = @ - 1, !.head = @ + 1, !.val = Cell(Q, Q.head),
                   !.deque = Tail(@)]
    ELSE [Q EXCEPT !.num_entries = @ - 1, !.head = 0, !.val = Cell(Q, Q.max_entries),
                   !.deque = Tail(@)]

\* BaseQueue::pop_back()
pop_back(Q) ==
    IF Q.num_entries = 0 THEN [Q EXCEPT !.val = 0]
    ELSE IF Q.tail # 0
    THEN [Q EXCEPT !.num_entries = @ - 1, !.tail = @ - 1, !.val = Cell(Q, Q.tail - 1),
                   !.deque = SubSeq(@, 1, Len(@) - 1)]
    ELSE [Q EXCEPT !.num_entries = @ - 1, !.tail = Q.max_entries,
                   !.val = Cell(Q, Q.max_entries),
                   !.deque = SubSeq(@, 1, Len(@) - 1)]

-----------------------------------------------------------------------------
(* BaseList of List.h: an array of max_entries cells.  A list L is         *)
(* [entries, max_entries, num_entries], with items, the elements in order  *)
(* as a sequence keeps them, and val, what the last call returned.         *)

DEFAULT_LIST_SIZE == 10
LIST_GROWTH_FACTOR == 2

\* BaseList::BaseList(size)
NewList(size) ==
    [entries |-> IF size <= 0 THEN <<>> ELSE [i \in 1..size |-> "?"],
     max_entries |-> IF size <= 0 THEN 0 ELSE size,
     num_entries |-> 0, items |-> <<>>, val |-> 0]

\* resize that gives the capacity asked for, entries or no entries.
ListResize_AsAsked(L, new_size) ==
    IF new_size # L.max_entries
    THEN [L EXCEPT !.entries = [i \in 1..new_size |->
                                   IF i <= L.max_entries THEN L.entries[i] ELSE "?"],
                   !.max_entries = new_size,
                   !.num_entries = IF @ > new_size THEN new_size ELSE @,
                   !.items = SubSeq(@, 1, IF L.num_entries > new_size THEN new_size
                                          ELSE L.num_entries),
                   !.val = new_size]
    ELSE [L EXCEPT !.val = L.max_entries]

\* resize from its test of new_size != max_entries on (lines 50-59):
\* safe_realloc keeps the cells that fit.
ListResizeTo(L, new_size) ==
    IF new_size # L.max_entries
    THEN [L EXCEPT !.entries = [i \in 1..new_size |->
                                   IF i <= L.max_entries THEN L.entries[i] ELSE "?"],
                   !.max_entries = new_size,
                   !.val = new_size]
    ELSE [L EXCEPT !.val = L.max_entries]

\* BaseList::resize(new_size)
ListResize(L, new_size) ==
    ListResizeTo(L, IF new_size < L.num_entries THEN L.num_entries ELSE new_size)

\* The resize of an insertion into a full list (lines 157-158, 194-195).
Grow(L) ==
    IF L.num_entries = L.max_entries
    THEN ListResize(L, IF L.max_entries # 0 THEN L.max_entries * LIST_GROWTH_FACTOR
                       ELSE DEFAULT_LIST_SIZE)
    ELSE L

\* insert after it made room (lines 160-164).
InsertStore(L, a) ==
    [L EXCEPT !.entries = [i \in 1..Len(@) |->
                              IF i = 1 THEN a
                              ELSE IF i <= L.num_entries + 1 THEN @[i - 1] ELSE @[i]],
              !.num_entries = @ + 1]

\* BaseList::insert(a)
insert(L, a) == [InsertStore(Grow(L), a) EXCEPT !.items = <<a>> \o @, !.val = 0]

\* append after it made room (line 197).
AppendStore(L, a) == [L EXCEPT !.entries[L.num_entries + 1] = a, !.num_entries = @ + 1]

\* BaseList::append(a)
append(L, a) == [AppendStore(Grow(L), a) EXCEPT !.items = Append(@, a), !.val = 0]

\* BaseList::get()
get(L) ==
    IF L.num_entries = 0 THEN [L EXCEPT !.val = 0]
    ELSE [L EXCEPT !.num_entries = @ - 1, !.val = L.entries[L.num_entries],
                   !.items = SubSeq(@, 1, Len(@) - 1)]

-----------------------------------------------------------------------------
(* ContainerSpec: the calls on one BaseQueue or one BaseList, in any       *)
(* order.  op and arg are the call that was made last, pushed the number  *)
(* of elements added so far.                                               *)

MaxPushes == 4
MaxResize == 3
ContainerValues == {1, 2}

ContainerInit ==
    /\ pc = "idle"
    /\ msg = <<>>
    /\ arg_is_query = 0
    /\ ret = -1
    /\ log = <<>>
    /\ cursor = NoCursor
    /\ first_message = TRUE
    /\ flips = 0
    /\ cfg \in FramerConfigs
    /\ framer = [o \in BOOLEAN |-> NoFramer]
    /\ pending = [o \in BOOLEAN |-> NoStream]
    /\ forwarded = <<>>
    /\ nm = <<>>
    /\ conn = NoConn
    /\ \/ /\ queue \in {[op |-> "new", arg |-> size, pushed |-> 0, q |-> NewQueue(size)] : size \in {-1, 0}}
          /\ list = NoList
       \/ /\ queue = NoQueue
          /\ list \in {[op |-> "new", arg |-> size, pushed |-> 0, l |-> NewList(size)] : size \in {0, 2}}

\* The call op(arg) on the queue left it as Q.
QueueCall(op, arg, Q, pushes) ==
    /\ queue' = [op |-> op, arg |-> arg, pushed |-> queue.pushed + pushes, q |-> Q]
    /\ UNCHANGED <<pc, msg, arg_is_query, ret, log, cursor, first_message, flips, cfg,
                   framer, pending, forwarded, nm, conn, list>>

\* The call op(arg) on the list left it as L.
ListCall(op, arg, L, pushes) ==
    /\ list' = [op |-> op, arg |-> arg, pushed |-> list.pushed + pushes, l |-> L]
    /\ UNCHANGED <<pc, msg, arg_is_query, ret, log, cursor, first_message, flips, cfg,
                   framer, pending, forwarded, nm, conn, queue>>

QueueNext ==
    /\ queue # NoQueue
    /\ \/ /\ queue.pushed < MaxPushes
          /\ \E a \in ContainerValues :
                \/ QueueCall("push_front", a, push_front(queue.q, a), 1)
                \/ QueueCall("push_back", a, push_back(queue.q, a), 1)
       \/ QueueCall("pop_front", 0, pop_front(queue.q), 0)
       \/ QueueCall("pop_back", 0, pop_back(queue.q), 0)
       \/ \E n \in 0..MaxResize : QueueCall("resize", n, QueueResize(queue.q, n), 0)

ListNext ==
    /\ list # NoList
    /\ \/ /\ list.pushed < MaxPushes
          /\ \E a \in ContainerValues :
                \/ ListCall("insert", a, insert(list.l, a), 1)
                \/ ListCall("append", a, append(list.l, a), 1)
       \/ ListCall("get", 0, get(list.l), 0)
       \/ \E n \in 0..MaxResize : ListCall("resize", n, ListResize(list.l, n), 0)

ContainerNext == QueueNext \/ ListNext

ContainerSpec == ContainerInit /\ [][ContainerNext]_vars

\* The elements of the queue Q from front to back, read from the ring.
RingContents(Q) ==
    [i \in 1..Q.num_entries |-> Cell(Q, (Q.head + i - 1) % (Q.max_entries + 1))]

\* The queue holds what a double-ended sequence holds, and length() is the
\* number of its elements.
QueueIsDeque(Q) ==
    /\ Q.num_entries = Len(Q.deque)
    /\ RingContents(Q) = Q.deque
    /\ Q.head \in 0..Q.max_entries
    /\ Q.tail \in 0..Q.max_entries
    /\ Q.num_entries <= Q.max_entries

\* What the call op on the queue Q is to return from the deque d that Q
\* held, and to leave.
PopChecked(op, Q, d) ==
    /\ (op = "pop_front" /\ d # <<>>) => (Q.val = Head(d) /\ Q.deque = Tail(d))
    /\ (op = "pop_back" /\ d # <<>>)
       => (Q.val = d[Len(d)] /\ Q.deque = SubSeq(d, 1, Len(d) - 1))
    /\ (op \in {"pop_front", "pop_back"} /\ d = <<>>)
       => (Q.val = 0 /\ Q.num_entries = 0 /\ Q.deque = <<>>)

(* C31 *)
\* C31: over push_front, push_back, pop_front and pop_back calls, with the
\* resizes of a full queue and head and tail wrapping around the ring, the
\* queue is a double-ended sequence: the ring holds the elements in order,
\* length() is their number, pop_front returns and removes the front
\* element, pop_back the back one, and a pop on an empty queue returns 0
\* and leaves it empty.
C31_QueueIsDeque ==
    /\ [](queue # NoQueue => QueueIsDeque(queue.q))
    /\ [][queue # NoQueue => PopChecked(queue'.op, queue'.q, queue.q.deque)]_vars

\* A pop_back from a queue that was resized twice when full and whose
\* contents wrap around the ring.
C31_Witness ==
    /\ queue # NoQueue
    /\ queue.op = "pop_back"
    /\ queue.q.val # 0
    /\ queue.q.chunk_size = 4 * DEFAULT_CHUNK_SIZE
    /\ queue.q.head > queue.q.tail
    /\ queue.q.num_entries > 0

\* The elements of the list L in order, read from its array.
ListContents(L) == [i \in 1..L.num_entries |-> L.entries[i]]

\* resize(n) on a queue that was P left Q and returned Q.val.
QueueResizeChecked(n, P, Q) ==
    /\ Q.val = Q.max_entries
    /\ n < P.num_entries => Q.max_entries = P.num_entries
    /\ n >= P.num_entries => Q.max_entries = n
    /\ Q.num_entries = P.num_entries
    /\ RingContents(Q) = RingContents(P)
    /\ Len(Q.entries) = Q.max_entries + 1

\* resize(n) on a list that was K left L and returned L.val.
ListResizeChecked(n, K, L) ==
    /\ L.val = L.max_entries
    /\ n < K.num_entries => L.max_entries = K.num_entries
    /\ n >= K.num_entries => L.max_entries = n
    /\ L.num_entries = K.num_entries
    /\ ListContents(L) = ListContents(K)
    /\ Len(L.entries) = L.max_entries

\* A step on the queue: a resize call, or an insertion, which never makes
\* max_entries smaller.
QueueStepChecked ==
    /\ queue'.op = "resize" => QueueResizeChecked(queue'.arg, queue.q, queue'.q)
    /\ queue'.op \in {"push_front", "push_back"}
       => /\ queue'.q.max_entries >= queue.q.max_entries
          /\ queue'.q.max_entries > queue.q.num_entries

ListStepChecked ==
    /\ list'.op = "resize" => ListResizeChecked(list'.arg, list.l, list'.l)
    /\ list'.op \in {"insert", "append"}
       => /\ list'.l.max_entries >= list.l.max_entries
          /\ list'.l.max_entries > list.l.num_entries
          /\ ListContents(list'.l) = list'.l.items

(* C32 *)
\* C32: resize(n) of a BaseList and of a BaseQueue, for n below the number
\* of entries, zero included, makes max_entries that number, keeps every
\* entry in its place in the order, also when the queue's entries wrap
\* around the ring, and returns the new max_entries; for any other n it
\* makes max_entries n.  The resize of an insertion never makes
\* max_entries smaller.
C32_ResizeKeepsEntries ==
    [][/\ queue # NoQueue => QueueStepChecked
       /\ list # NoList => ListStepChecked]_vars

\* A queue of two entries that wrap around the ring, resized to fit them.
C32_Witness ==
    /\ queue # NoQueue
    /\ queue.op = "resize"
    /\ queue.arg = 0
    /\ queue.q.num_entries = 2
    /\ queue.q.max_entries = 2
    /\ queue.q.val = 2
    /\ queue.q.entries = <<2, 1, "?">>
    /\ queue.q.deque = <<2, 1>>

\* A list of three entries resized to two: it keeps the three.
C32_ListWitness ==
    /\ list # NoList
    /\ list.op = "resize"
    /\ list.arg = 2
    /\ list.l.num_entries = 3
    /\ list.l.max_entries = 3
-----------------------------------------------------------------------------
(* The name buffer, under NameSpec.                                        *)

RECURSIVE WrittenBytes(_)
\* The bytes that copying the labels ls wrote: each label and its dot.
WrittenBytes(ls) == IF ls = <<>> THEN 0 ELSE Len(Head(ls)) + 1 + WrittenBytes(Tail(ls))

\* The label that found no room: its length was at least the room left,
\* which was what the labels copied before it had left, and no label was
\* copied for it or after it.
RefusedChecked(r) ==
    /\ r[1] >= r[2]
    /\ r[2] = NAME_LEN - WrittenBytes(nm.labels)
    /\ r[3] = Len(nm.labels)

(* C33 *)
\* C33: an ExtractName call on a buffer of name_len = 512 bytes, nested
\* compression pointers included, writes 512 bytes at most, labels and
\* their dots together; name_len is never negative after a copy; and
\* DNS_label_len_gt_name_len is emitted exactly for a label whose length
\* is the remaining name_len or more, which ends the name with nothing
\* written for it.
C33_NameBufferNeverOverrun ==
    NameCalled =>
        /\ nm.low >= 0
        /\ WrittenBytes(nm.labels) <= NAME_LEN
        /\ WrittenBytes(nm.labels) = NAME_LEN - nm.low
        /\ Len(nm.name) <= NAME_LEN
        /\ WeirdIdx("DNS_label_len_gt_name_len") # {} <=> nm.refused # <<>>
        /\ nm.refused # <<>> => RefusedChecked(nm.refused)

\* Eight labels of 63 bytes reached through a pointer fill the buffer, and
\* the next label, in the nested name, finds no room.
C33_Witness ==
    /\ NameCalled
    /\ msg = LabelsOf(7, 63) \o LabelsOf(1, 63) \o <<192, 0>>
    /\ nm.start = 448
    /\ Len(nm.ptrs) = 1
    /\ nm.low = 0
    /\ nm.refused = <<63, 0, 8>>
    /\ WeirdIdx("DNS_label_len_gt_name_len") # {}
-----------------------------------------------------------------------------
(* The framer's buffer, under CloseSpec.                                   *)

\* Every byte stored to msg_buf so far went to msg_buf[buf_n] with
\* buf_n < msg_size <= buf_len, and neither Flush nor ForwardPacket was
\* handed more than the buf_len bytes of the buffer.
BufferRespected(F) == ~F.wild /\ ~F.overread /\ Len(F.msg_buf) = F.buf_len

\* buf_n <= msg_size while the framer collects a message.
FillWithinSize(F) == F.state = "DNS_MESSAGE_BUFFER" => F.buf_n <= F.msg_size

\* The parts of C34 other than buf_n <= msg_size: the buffer is respected
\* in every state and no step makes buf_len smaller.
BufferKept ==
    /\ [](\A o \in BOOLEAN : BufferRespected(framer[o]))
    /\ [][\A o \in BOOLEAN : framer'[o].buf_len >= framer[o].buf_len]_vars

(* C34 *)
\* C34: through any sequence of DeliverStream and Flush calls on a framer,
\* buf_len never decreases, every byte is stored to msg_buf[buf_n] with
\* buf_n < msg_size <= buf_len, buf_n <= msg_size whenever the state is
\* DNS_MESSAGE_BUFFER, and Flush and ForwardPacket hand over buf_len bytes
\* at most.
C34_FramerBufferInvariants ==
    /\ [](\A o \in BOOLEAN : BufferRespected(framer[o]) /\ FillWithinSize(framer[o]))
    /\ [][\A o \in BOOLEAN : framer'[o].buf_len >= framer[o].buf_len]_vars

\* A framer that Flush left with more bytes buffered than msg_size.
C34_Flushed ==
    \E o \in BOOLEAN :
        /\ conn.flushed[o] >= 0
        /\ framer[o].state = "DNS_MESSAGE_BUFFER"
        /\ framer[o].msg_size = 0
        /\ framer[o].buf_n > 0
-----------------------------------------------------------------------------
(* Frames and DeliverStream calls, under FramerSpec.                       *)

RECURSIVE WholeFrames(_)
\* s is a sequence of complete frames, of any declared length.
WholeFrames(s) ==
    \/ s = <<>>
    \/ /\ Len(s) >= 2
       /\ Len(s) >= 2 + s[1] * 256 + s[2]
       /\ WholeFrames(SubSeq(s, 3 + s[1] * 256 + s[2], Len(s)))

RECURSIVE EndsOnEmptyFrame(_)
\* The last byte of s is the low length byte of a frame of declared length 0.
EndsOnEmptyFrame(s) ==
    /\ Len(s) >= 2
    /\ Len(s) >= 2 + s[1] * 256 + s[2]
    /\ IF Len(s) = 2 + s[1] * 256 + s[2]
       THEN s[1] * 256 + s[2] = 0
       ELSE EndsOnEmptyFrame(SubSeq(s, 3 + s[1] * 256 + s[2], Len(s)))

\* The framer F has forwarded every complete frame of the bytes s that the
\* DeliverStream calls of direction orig supplied, and is at DNS_LEN_HI
\* with buf_n = 0 when s ends with a frame.
NothingLeftOver(F, s, orig) ==
    /\ ForwardedOf(orig) = Payloads(s)
    /\ WholeFrames(s) => (F.state = "DNS_LEN_HI" /\ F.buf_n = 0)

(* C35 *)
\* C35: when a DeliverStream call returns, every frame whose final byte has
\* been supplied has been forwarded, a frame of declared length 0 (whose
\* final byte is its low length byte) included, and after a frame's final
\* byte the framer is in DNS_LEN_HI with buf_n = 0.
C35_NoFrameLeftOver ==
    \A orig \in BOOLEAN :
        pending[orig].calls > 0
        => NothingLeftOver(framer[orig], DeliveredBytes(orig), orig)

\* The same for the calls whose segment does not end on the low length byte
\* of a frame of declared length 0.
FramesForwardedUnlessEmpty ==
    \A orig \in BOOLEAN :
        (pending[orig].calls > 0 /\ ~EndsOnEmptyFrame(DeliveredBytes(orig)))
        => NothingLeftOver(framer[orig], DeliveredBytes(orig), orig)

\* The two length bytes of an empty frame were delivered and nothing was
\* forwarded: the framer waits in DNS_MESSAGE_BUFFER.
C35_EmptyFrameHeld ==
    /\ DeliveredBytes(TRUE) = <<0, 0>>
    /\ ForwardedOf(TRUE) = <<>>
    /\ framer[TRUE].state = "DNS_MESSAGE_BUFFER"
    /\ framer[TRUE].msg_size = 0
-----------------------------------------------------------------------------
(* Records cut inside their fixed fields, under RecordSpec.                *)

\* The call was on a response with one answer record of root owner and n
\* bytes after the owner name.
ShortRecordCalled(n) ==
    /\ Called
    /\ \E type \in RecordTypes : msg = ShortRecord(type, n)

\* ParseAnswer returned 0 before its switch, on one of its two length
\* checks, and no record event was emitted.
RejectedBeforeDispatch ==
    /\ ret = 0
    /\ ReturnIdx("ParseAnswer", 1) = {}
    /\ ReturnIdx("ParseAnswer", 0) # {}
    /\ RecordIdx = {}
    /\ WeirdIdx("DNS_truncated_ans_too_short") \cup WeirdIdx("DNS_truncated_RR_rdlength_lt_len")
           # {}

(* C36 *)
\* C36: with fewer than 10 bytes after the owner name (type, class, ttl and
\* rdlength cannot all be read) ParseAnswer returns 0, emits no record
\* event and dispatches no record parser on a type, ttl or rdlength that a
\* short ExtractShort or ExtractLong read returned.
C36_ShortRecordRejected ==
    \A n \in 0..(Len(FixedFields(0)) - 1) : ShortRecordCalled(n) => RejectedBeforeDispatch

\* The same for fewer than 4 bytes after the owner name, which is what
\* ParseAnswer tests before it reads the fields.
ShortTypeClassRejected ==
    \A n \in 0..(Len(U16(0) \o U16(1)) - 1) : ShortRecordCalled(n) => RejectedBeforeDispatch

\* A record of type and class alone, of a type with no parser: ttl and
\* rdlength came from short reads, dns_unknown_reply was emitted and the
\* message was accepted.
C36_ShortDispatched ==
    /\ Called
    /\ msg = ShortRecord(0, Len(U16(0) \o U16(1)))
    /\ ret = 1
    /\ EventIdx("dns_unknown_reply") # {}
    /\ ReturnIdx("ParseAnswer", 1) # {}
-----------------------------------------------------------------------------
(* AAAA and A6 records, under RecordSpec.                                  *)

\* The bytes of a one-record response before the record's payload, the
\* rdlength its last two bytes declare, and the bytes of payload the
\* message of the call holds.
PayloadStart == Len(RecordMessage(0, 0, <<>>))
DeclaredRdlength == msg[PayloadStart - 1] * 256 + msg[PayloadStart]
PayloadLen == Len(msg) - PayloadStart

\* The call was on a response with one answer record of the given type:
\* root owner and all the fixed fields, then the payload.
RecordCalled(type) ==
    /\ Called
    /\ Len(msg) >= PayloadStart
    /\ SubSeq(msg, 1, PayloadStart) = RecordMessage(type, DeclaredRdlength, <<>>)

\* What ParseRR_AAAA emits for the type.
AddrReply(type) == IF type = TYPE_AAAA THEN "dns_AAAA_reply" ELSE "dns_A6_reply"
AddrNegLength(type) == IF type = TYPE_AAAA THEN "DNS_AAAA_neg_length" ELSE "DNS_A6_neg_length"

\* The record of the call, of type AAAA or A6: the reply event needs the 16
\* address bytes, and ParseRR_AAAA, when it runs with fewer, reports the
\* negative length, fails the message and emits no reply.
AddrChecked(type) ==
    /\ EventIdx(AddrReply(type)) # {} => PayloadLen >= 16
    /\ (DeclaredRdlength <= PayloadLen /\ PayloadLen < 16)
       => /\ ret = 0
          /\ WeirdIdx(AddrNegLength(type)) # {}
          /\ EventIdx(AddrReply(type)) = {}

(* C37 *)
\* C37: dns_AAAA_reply or dns_A6_reply is emitted only when all 16 address
\* bytes were read from the message; when fewer than 16 bytes remain as
\* ParseRR_AAAA runs it emits DNS_AAAA_neg_length (type AAAA) or
\* DNS_A6_neg_length (type A6), returns 0 and emits no reply event.
C37_AddressNeedsSixteenBytes ==
    \A type \in {TYPE_AAAA, TYPE_A6} : RecordCalled(type) => AddrChecked(type)

\* Neither weird is ever raised: ExtractLong leaves len as it is when fewer
\* than 4 bytes remain, so len < 0 is never true in ParseRR_AAAA.
NegLengthNeverRaised ==
    WeirdIdx("DNS_AAAA_neg_length") \cup WeirdIdx("DNS_A6_neg_length") = {}

\* With the 16 bytes there the reply is emitted and the message accepted.
FullAddressReplied ==
    \A type \in {TYPE_AAAA, TYPE_A6} :
        (RecordCalled(type) /\ DeclaredRdlength <= PayloadLen /\ PayloadLen >= 16)
        => EventIdx(AddrReply(type)) # {}

\* An AAAA record with no payload at all: dns_AAAA_reply was emitted and
\* the message accepted.
C37_EmptyAddressReplied ==
    /\ Called
    /\ msg = RecordMessage(TYPE_AAAA, 0, <<>>)
    /\ ret = 1
    /\ EventIdx("dns_AAAA_reply") # {}
    /\ WeirdIdx("DNS_AAAA_neg_length") = {}
-----------------------------------------------------------------------------
(* The skip policy for a message without answers, under Spec.              *)

\* The call parsed the questions of a message that declares no answer.
NoAnswerCalled ==
    /\ CalledWithHeader
    /\ HdrAn = 0
    /\ SignalIdx("ProtocolConfirmation") # {}

\* ParseAnswers was called for the section and went through it: one return
\* of ParseAnswer per record, up to the first that is 0.
SectionParsed(atype, count) ==
    /\ Cardinality(AnswerReturns(atype) \cap ReturnIdx("ParseAnswer", 0)) <= 1
    /\ \A i \in AnswerReturns(atype) \cap ReturnIdx("ParseAnswer", 0) :
          \A j \in AnswerReturns(atype) : j <= i
    /\ IF AnswerReturns(atype) \cap ReturnIdx("ParseAnswer", 0) = {}
       THEN Cardinality(AnswerReturns(atype)) = count
       ELSE Cardinality(AnswerReturns(atype)) <= count

\* The section was not parsed.
SectionLeft(atype) == AnswerReturns(atype) = {} /\ RecordIdxOf(atype) = {}

\* The records of the section that ParseAnswer accepted have their events,
\* those of the types that have one.
EventsEnabled(atype) ==
    \A i \in AnswerReturns(atype) \cap ReturnIdx("ParseAnswer", 1) :
        Evented(i) <=> TypeAt(i) \notin SilentTypes

\* They have none, but for TSIG, whose parser does not look at skip_event.
EventsSuppressed(atype) ==
    \A i \in AnswerReturns(atype) \cap ReturnIdx("ParseAnswer", 1) :
        Evented(i) <=> TypeAt(i) = TYPE_TSIG

\* What the two toggles, and nothing else, make of the authority and the
\* additional section.
ToggledOnly(all_auth, all_addl) ==
    /\ IF all_auth /\ all_addl
       THEN SectionLeft(DNS_AUTHORITY) /\ ret = 1
       ELSE /\ SectionParsed(DNS_AUTHORITY, HdrNs)
            /\ IF all_auth THEN EventsSuppressed(DNS_AUTHORITY)
                           ELSE EventsEnabled(DNS_AUTHORITY)
    /\ IF all_addl \/ AnswerReturns(DNS_AUTHORITY) \cap ReturnIdx("ParseAnswer", 0) # {}
       THEN SectionLeft(DNS_ADDITIONAL)
       ELSE SectionParsed(DNS_ADDITIONAL, HdrAr) /\ EventsEnabled(DNS_ADDITIONAL)

(* C38 *)
\* C38: for a message with ancount = 0 the per-responder filters and the
\* zero counts do not change what is skipped: skip_auth and skip_addl are
\* dns_skip_all_auth and dns_skip_all_addl, so with both off the authority
\* and the additional section are parsed with their events enabled, also
\* for a responder in both filter sets.
C38_NoAnswerToggledOnly ==
    NoAnswerCalled => ToggledOnly(cfg.dns_skip_all_auth, cfg.dns_skip_all_addl)

\* A response without answers from a responder in both filter sets: its
\* authority record and its additional record were reported.
C38_Witness ==
    /\ NoAnswerCalled
    /\ msg = Message(1, <<Q_A>>, <<>>, <<R_A>>, <<R_A>>)
    /\ cfg.in_dns_skip_auth /\ cfg.in_dns_skip_addl
    /\ ret = 1
    /\ Cardinality(RecordIdxOf(DNS_AUTHORITY)) = 1
    /\ Cardinality(RecordIdxOf(DNS_ADDITIONAL)) = 1
-----------------------------------------------------------------------------
(* One of the two sections skipped, under Spec.                            *)

\* The returns of ParseAnswer with 0 in a section.
FailedIn(atype) == AnswerReturns(atype) \cap ReturnIdx("ParseAnswer", 0)

\* The call ended after an authority section that it parsed, all of it,
\* with events: it returned 1, dns_end is the last thing it emitted, and it
\* left the additional section alone.
EndedAfterAuthority ==
    /\ ret = 1
    /\ SectionParsed(DNS_AUTHORITY, HdrNs)
    /\ EventsEnabled(DNS_AUTHORITY)
    /\ SectionLeft(DNS_ADDITIONAL)
    /\ Cardinality(EventIdx("dns_end")) = 1
    /\ IsEvent(log[Len(log)], "dns_end")
    /\ cursor.len = Len(msg) - cursor.pos

\* The call failed in an authority section parsed with events suppressed:
\* it returned 0 and left the additional section alone.
FailedInAuthority ==
    /\ ret = 0
    /\ EventsSuppressed(DNS_AUTHORITY)
    /\ \A i \in RecordIdxOf(DNS_AUTHORITY) : (i + 1) \in AnswerReturns(DNS_AUTHORITY)
    /\ SectionLeft(DNS_ADDITIONAL)

\* The step is a ParseMessage call that parsed the answer section of its
\* message and computed the given skip_auth and skip_addl.
SkipsComputed(auth, addl) ==
    /\ IsCall
    /\ Len(msg') >= HDR_LEN
    /\ ConfirmedAt(log') # {}
    /\ skip_auth(HeaderCounts(msg')) = auth
    /\ skip_addl(HeaderCounts(msg')) = addl

(* C39 *)
\* C39: with skip_addl true and skip_auth false ParseMessage parses the
\* authority section with events and, when that succeeds, ends there: it
\* returns 1 and emits dns_end, and does the same on the message cut after
\* the authority section, whatever the additional section holds.  With
\* skip_auth true and skip_addl false a record that fails in the authority
\* section, parsed with its events suppressed, makes ParseMessage return 0
\* and keeps the additional section from being parsed.
C39_OneSectionSkipped ==
    [][/\ (SkipsComputed(FALSE, TRUE) /\ FailedIn(DNS_AUTHORITY)' = {})
          => /\ EndedAfterAuthority'
             /\ SameWhenCut(ParseMessage(SubSeq(msg', 1, cursor'.pos), cursor'.pos,
                                         arg_is_query', first_message, flips))
       /\ (SkipsComputed(TRUE, FALSE) /\ FailedIn(DNS_AUTHORITY)' # {})
          => FailedInAuthority']_vars

\* The additional section skipped for every server: the authority record
\* was reported and the call returned 1 with its cursor before the
\* malformed additional record.
C39_Witness ==
    /\ Called /\ ret = 1
    /\ msg = Message(1, <<Q_A>>, <<>>, <<R_A>>, <<R_BadA>>)
    /\ cfg.dns_skip_all_addl /\ ~cfg.dns_skip_all_auth
    /\ Cardinality(RecordIdxOf(DNS_AUTHORITY)) = 1
    /\ cursor.len = Len(R_BadA)
    /\ IsEvent(log[Len(log)], "dns_end")

\* The authority section skipped for this server and malformed: the call
\* returned 0 before the additional record.
C39_AuthorityFailed ==
    /\ Called /\ ret = 0
    /\ msg = Message(1, <<Q_A>>, <<R_A>>, <<R_BadA>>, <<R_A>>)
    /\ cfg.in_dns_skip_auth /\ ~cfg.in_dns_skip_addl /\ ~cfg.dns_skip_all_addl
    /\ FailedIn(DNS_AUTHORITY) # {}
    /\ RecordIdxOf(DNS_ADDITIONAL) = {}
-----------------------------------------------------------------------------
(* TimerLiveSpec: the timers of TimerSpec under a timer manager that       *)
(* dispatches every timer it holds: a pending timer stays dispatchable     *)
(* until it is dispatched, so weak fairness of the dispatch says that      *)
(* every scheduled timer eventually fires.                                 *)

TimerLiveSpec == TimerInit /\ [][TimerNext]_vars /\ WF_vars(TimerFires)

\* A step in which a packet updates Conn()->LastTime().
IsPacket == conn'.last_time # conn.last_time

\* connection_timeout was emitted and the session removed.
TimedOut == conn.removed /\ Timeouts # {}

(* C40 *)
\* C40: for a UDP session with dns_session_timeout > 0 whose scheduled
\* timers all fire eventually, if from some time on no packet updates
\* LastTime then connection_timeout is eventually emitted and the session
\* removed; and the ExpireTimer call that finds another one since the last
\* packet does so: the timer is rearmed at most once without a packet.
C40_IdleSessionTimesOut ==
    /\ [][(IsFiring /\ conn.since >= 1) => (conn'.removed /\ Timeouts' # {})]_vars
    /\ \/ <>[](conn.transport = "TRANSPORT_TCP")
       \/ []<><<IsPacket>>_vars
       \/ <>TimedOut

\* The second ExpireTimer call since the packet at time 2, the first having
\* rearmed the timer: the session was timed out.
C40_Witness ==
    /\ conn.transport = "TRANSPORT_UDP"
    /\ cfg.dns_session_timeout = 3
    /\ conn.last_time = 2
    /\ conn.since = 2
    /\ conn.now = 6
    /\ TimedOut
=============================================================================
